---- MODULE Spec2Model ----
(***************************************************************************)
(* A model of the drill pipeline of nextjlc (src/src/drill.rs): filename   *)
(* filters, dialect detection, the two Excellon parsers, the merge/split   *)
(* engine, the canonical emitter and process_drill_files.                  *)
(*                                                                         *)
(* Text is modelled as text: a file content is the sequence of its lines   *)
(* (what str::lines() yields) and every line is a string, matched          *)
(* character by character the way the regular expressions of the source    *)
(* match it.  Real numbers (f64 millimetres) are fixed-point integers in   *)
(* units of 1e-6 mm, so that rounding and truncation of diameter*100000    *)
(* differ; tokens of the catalogues carry at most six decimals.            *)
(***************************************************************************)
EXTENDS Integers, Sequences, FiniteSets, TLC

(***************************************************************************)
(* Strings                                                                 *)
(***************************************************************************)
\* The i-th character of s, "" outside it.
Ch(s, i) == IF i >= 1 /\ i <= Len(s) THEN SubSeq(s, i, i) ELSE ""

Digits == {"0", "1", "2", "3", "4", "5", "6", "7", "8", "9"}

DigitString == "0123456789"

DigitVal(c) == (CHOOSE i \in 1..10 : SubSeq(DigitString, i, i) = c) - 1

DigitChar(d) == SubSeq(DigitString, d + 1, d + 1)

UpperAlpha == "ABCDEFGHIJKLMNOPQRSTUVWXYZ"

LowerAlpha == "abcdefghijklmnopqrstuvwxyz"

\* The table that sends each letter of alphabet "from" to the letter at its
\* place in alphabet "to".
CaseTable(from, to) ==
  [c \in {SubSeq(from, i, i) : i \in 1..26} |->
     SubSeq(to, CHOOSE i \in 1..26 : SubSeq(from, i, i) = c,
                CHOOSE i \in 1..26 : SubSeq(from, i, i) = c)]

LowerTable == CaseTable(UpperAlpha, LowerAlpha)

UpperTable == CaseTable(LowerAlpha, UpperAlpha)

\* c mapped by the table; c itself when the table does not hold it.
MapCh(c, table) == IF c \in DOMAIN table THEN table[c] ELSE c

RECURSIVE MapStr(_, _)
MapStr(s, table) ==
  IF s = "" THEN ""
  ELSE MapCh(SubSeq(s, 1, 1), table) \o MapStr(SubSeq(s, 2, Len(s)), table)

to_lowercase(s) == MapStr(s, LowerTable)

to_uppercase(s) == MapStr(s, UpperTable)

starts_with(s, p) == Len(s) >= Len(p) /\ SubSeq(s, 1, Len(p)) = p

ends_with(s, p) == Len(s) >= Len(p) /\ SubSeq(s, Len(s) - Len(p) + 1, Len(s)) = p

\* str::contains: p occurs in s at some position.
contains(s, p) == \E i \in 1..(Len(s) - Len(p) + 1) : SubSeq(s, i, i + Len(p) - 1) = p

WhiteSpace == {" ", "\t", "\r"}

RECURSIVE trim_start(_)
trim_start(s) ==
  IF s # "" /\ SubSeq(s, 1, 1) \in WhiteSpace THEN trim_start(SubSeq(s, 2, Len(s))) ELSE s

RECURSIVE trim_end(_)
trim_end(s) ==
  IF s # "" /\ SubSeq(s, Len(s), Len(s)) \in WhiteSpace
  THEN trim_end(SubSeq(s, 1, Len(s) - 1)) ELSE s

trim(s) == trim_end(trim_start(s))

\* The end (exclusive) of the longest run of characters of class cls that starts at i.
RECURSIVE RunEnd(_, _, _)
RunEnd(s, i, cls) ==
  IF i <= Len(s) /\ SubSeq(s, i, i) \in cls THEN RunEnd(s, i + 1, cls) ELSE i

(***************************************************************************)
(* Numbers                                                                 *)
(***************************************************************************)
\* One millimetre in model units.
Unit == 10 ^ 6

\* Numbers of the model are below 2^31: the evaluation of a number outside this
\* range ends the run with an overflow error instead of giving a wrong value.
RECURSIVE Pow10(_)
Pow10(n) == IF n <= 0 THEN 1 ELSE 10 * Pow10(n - 1)

\* The value of a string of decimal digits.
RECURSIVE DigitsVal(_)
DigitsVal(s) ==
  IF s = "" THEN 0
  ELSE 10 * DigitsVal(SubSeq(s, 1, Len(s) - 1)) + DigitVal(SubSeq(s, Len(s), Len(s)))

AllDigits(s) == \A i \in 1..Len(s) : SubSeq(s, i, i) \in Digits

Abs(v) == IF v < 0 THEN -v ELSE v

Signed(neg, mag) == IF neg THEN -mag ELSE mag

Min(a, b) == IF a < b THEN a ELSE b

\* s without one leading sign.
StripSign(s) ==
  IF s # "" /\ SubSeq(s, 1, 1) \in {"+", "-"} THEN SubSeq(s, 2, Len(s)) ELSE s

UnsignedOr(t, dflt) == IF t # "" /\ AllDigits(t) THEN DigitsVal(t) ELSE dflt

\* str::parse::<u32>().unwrap_or(dflt)
parse_u32_or(s, dflt) ==
  UnsignedOr(IF starts_with(s, "+") THEN SubSeq(s, 2, Len(s)) ELSE s, dflt)

NoNum == [ok |-> FALSE, val |-> 0]

SignedDigits(neg, t) ==
  IF t # "" /\ AllDigits(t) THEN [ok |-> TRUE, val |-> Signed(neg, DigitsVal(t))] ELSE NoNum

\* str::parse::<i64>(): an optional sign and decimal digits.
parse_i64(s) == SignedDigits(starts_with(s, "-"), StripSign(s))

\* The first six decimals of a fraction digit string, in model units.
FracVal(f6) == DigitsVal(f6) * Pow10(6 - Len(f6))

DecimalOf(neg, ip, fp, wellformed) ==
  IF wellformed /\ AllDigits(fp) /\ Len(ip) + Len(fp) >= 1
  THEN [ok |-> TRUE,
        val |-> Signed(neg, DigitsVal(ip) * Unit + FracVal(SubSeq(fp, 1, Min(Len(fp), 6))))]
  ELSE NoNum

\* t is split at e, the end of its leading digits.
DecimalAt(neg, t, e) ==
  DecimalOf(neg, SubSeq(t, 1, e - 1),
            IF Ch(t, e) = "." THEN SubSeq(t, e + 1, Len(t)) ELSE "",
            Ch(t, e) = "." \/ e = Len(t) + 1)

DecimalUnsigned(neg, t) == DecimalAt(neg, t, RunEnd(t, 1, Digits))

\* str::parse::<f64>() restricted to the characters the coordinate and diameter
\* patterns admit ([\d.-]): an optional sign, digits with at most one point and at
\* least one digit.  The value is in model units; digits past the sixth decimal
\* are dropped.
parse_f64(s) == DecimalUnsigned(starts_with(s, "-"), StripSign(s))

ValueOr(r, dflt) == IF r.ok THEN r.val ELSE dflt

\* str::parse::<f64>().unwrap_or(dflt)
parse_f64_or(s, dflt) == ValueOr(parse_f64(s), dflt)

\* Division of a natural number rounded to the nearest integer, ties upwards.
RoundDiv(a, b) == (a \div b) + (IF 2 * (a % b) >= b THEN 1 ELSE 0)

\* |v| * INCH_TO_MM (25.4, drill.rs:89), rounded to the model unit.
InchToMmAbs(a) == (a \div 10) * 254 + RoundDiv((a % 10) * 254, 10)

inch_to_mm(v) == Signed(v < 0, InchToMmAbs(Abs(v)))

\* if unit == DrillUnit::Inch { v * INCH_TO_MM } else { v }
to_mm(unit, v) == IF unit = "Inch" THEN inch_to_mm(v) ELSE v

RECURSIVE NatToStr(_)
NatToStr(n) == IF n < 10 THEN DigitChar(n) ELSE NatToStr(n \div 10) \o DigitChar(n % 10)

RECURSIVE ZeroPad(_, _)
ZeroPad(s, w) == IF Len(s) >= w THEN s ELSE ZeroPad("0" \o s, w)

\* format!("{:02}", n)
Fmt02(n) == ZeroPad(NatToStr(n), 2)

Fixed5(neg, a) ==
  (IF neg THEN "-" ELSE "") \o NatToStr(a \div 100000) \o "." \o ZeroPad(NatToStr(a % 100000), 5)

\* format!("{:.5}", v): five decimals, rounded to nearest.
Fmt5(v) == Fixed5(v < 0, RoundDiv(Abs(v), 10))

(***************************************************************************)
(* Option<T> is a sequence of length 0 (None) or 1 (Some)                  *)
(***************************************************************************)
None == <<>>

Some(v) == <<v>>

IsSome(o) == Len(o) = 1

Get(o) == o[1]

(***************************************************************************)
(* The regular expressions of src/src/drill.rs:66-87                       *)
(***************************************************************************)
CoordClass == Digits \cup {".", "-"}

DiamClass == Digits \cup {"."}

NoMatch == [m |-> FALSE]

\* The end of letter([\d.-]+) at position i; i when it does not match there.
AxisRun(i, e) == IF e > i + 1 THEN e ELSE i

AxisEnd(s, i, letter) ==
  IF Ch(s, i) = letter THEN AxisRun(i, RunEnd(s, i + 1, CoordClass)) ELSE i

AxesOf(s, i, xe, ye) ==
  [m |-> TRUE,
   x |-> IF xe > i THEN Some(SubSeq(s, i + 1, xe - 1)) ELSE None,
   y |-> IF ye > xe THEN Some(SubSeq(s, xe + 1, ye - 1)) ELSE None,
   end |-> ye]

AxesFrom(s, i, xe) == AxesOf(s, i, xe, AxisEnd(s, xe, "Y"))

\* (?:X([\d.-]+))?(?:Y([\d.-]+))? matched at position i: both groups are greedy
\* and optional; "end" is the position after the match.
MatchAxes(s, i) == AxesFrom(s, i, AxisEnd(s, i, "X"))

AdToolAt(s, e1, e2, e3, e4) ==
  IF /\ Ch(s, 1) = "T" /\ e1 > 2
     /\ Ch(s, e1) = "F" /\ e2 > e1 + 1
     /\ Ch(s, e2) = "S" /\ e3 > e2 + 1
     /\ Ch(s, e3) = "C" /\ e4 > e3 + 1
  THEN [m |-> TRUE, g1 |-> SubSeq(s, 2, e1 - 1), g2 |-> SubSeq(s, e3 + 1, e4 - 1)]
  ELSE NoMatch

AdToolS(s, e1, e2, e3) == AdToolAt(s, e1, e2, e3, RunEnd(s, e3 + 1, DiamClass))

AdToolF(s, e1, e2) == AdToolS(s, e1, e2, RunEnd(s, e2 + 1, Digits))

AdToolT(s, e1) == AdToolF(s, e1, RunEnd(s, e1 + 1, Digits))

\* ^T(\d+)F\d+S\d+C([\d.]+)
AD_TOOL_REGEX(s) == AdToolT(s, RunEnd(s, 2, Digits))

KicadToolAt(s, e1, e2) ==
  IF Ch(s, 1) = "T" /\ e1 > 2 /\ Ch(s, e1) = "C" /\ e2 > e1 + 1
  THEN [m |-> TRUE, g1 |-> SubSeq(s, 2, e1 - 1), g2 |-> SubSeq(s, e1 + 1, e2 - 1)]
  ELSE NoMatch

KicadToolT(s, e1) == KicadToolAt(s, e1, RunEnd(s, e1 + 1, DiamClass))

\* ^T(\d+)C([\d.]+)
KICAD_TOOL_REGEX(s) == KicadToolT(s, RunEnd(s, 2, Digits))

AnchoredAtEnd(s, a) == IF a.end = Len(s) + 1 THEN a ELSE NoMatch

\* ^(?:X([\d.-]+))?(?:Y([\d.-]+))?$
COORD_REGEX(s) == AnchoredAtEnd(s, MatchAxes(s, 1))

\* ^T(\d+)$
TOOL_SELECT_REGEX(s) ==
  IF Ch(s, 1) = "T" /\ Len(s) >= 2 /\ RunEnd(s, 2, Digits) = Len(s) + 1
  THEN [m |-> TRUE, g1 |-> SubSeq(s, 2, Len(s))]
  ELSE NoMatch

\* ^G00(?:X([\d.-]+))?(?:Y([\d.-]+))?
ROUTE_START_REGEX(s) == IF starts_with(s, "G00") THEN MatchAxes(s, 4) ELSE NoMatch

\* ^G01(?:X([\d.-]+))?(?:Y([\d.-]+))?
ROUTE_TO_REGEX(s) == IF starts_with(s, "G01") THEN MatchAxes(s, 4) ELSE NoMatch

FileFormatOf(s, b, e1, e2) ==
  IF e1 > b /\ Ch(s, e1) = ":" /\ e2 > e1 + 1
  THEN [m |-> TRUE, g1 |-> SubSeq(s, b, e1 - 1), g2 |-> SubSeq(s, e1 + 1, e2 - 1)]
  ELSE NoMatch

FileFormatI(s, b, e1) == FileFormatOf(s, b, e1, RunEnd(s, e1 + 1, Digits))

\* FILE_FORMAT=(\d+):(\d+) matched at position i.
FileFormatAt(s, i) ==
  IF SubSeq(s, i, i + 11) = "FILE_FORMAT="
  THEN FileFormatI(s, i + 12, RunEnd(s, i + 12, Digits))
  ELSE NoMatch

FirstFileFormat(s, at) ==
  IF at = {} THEN NoMatch ELSE FileFormatAt(s, CHOOSE i \in at : \A j \in at : i <= j)

\* FILE_FORMAT=(\d+):(\d+), unanchored: the leftmost match.
FILE_FORMAT_REGEX(s) == FirstFileFormat(s, {i \in 1..(Len(s) - 11) : FileFormatAt(s, i).m})

BothAxes(a) == IF IsSome(a.x) /\ IsSome(a.y) THEN a ELSE NoMatch

\* ^X([\d.-]+)Y([\d.-]+), compiled inside parse_kicad_excellon (drill.rs:540)
KICAD_COORD_REGEX(s) == BothAxes(MatchAxes(s, 1))

(***************************************************************************)
(* Format Detector                                                         *)
(***************************************************************************)
TxExtensions == {".tx1", ".tx2", ".tx3", ".tx4", ".tx5", ".tx6"}

HasTxExtension(lower) == \E e \in TxExtensions : ends_with(lower, e)

\* The rule without the blind-via extensions.
IsDrillName_drl_or_txt(lower) ==
  \/ ends_with(lower, ".drl")
  \/ ends_with(lower, ".txt") /\ (contains(lower, "hole") \/ contains(lower, "drill"))

IsDrillName(lower) ==
  \/ ends_with(lower, ".drl")
  \/ ends_with(lower, ".txt") /\ (contains(lower, "hole") \/ contains(lower, "drill"))
  \/ HasTxExtension(lower)

is_drill_file(filename) == IsDrillName(to_lowercase(filename))

\* Only the names that end in .drl count as through-hole files.
is_through_drill_drl_only(filename) == ends_with(to_lowercase(filename), ".drl")

is_through_drill(filename) == ~HasTxExtension(to_lowercase(filename))

\* A content is the sequence of its lines; a pattern without a line break occurs
\* in the content iff it occurs in one of its lines.
content_contains(content, p) == \E i \in 1..Len(content) : contains(content[i], p)

lower_content(content) == [i \in 1..Len(content) |-> to_lowercase(content[i])]

\* AD_TOOL_REGEX.is_match(content): the pattern is anchored with ^ and is not in
\* multi-line mode, so it can only match at the very start of the content.
ad_tool_is_match(content) == Len(content) >= 1 /\ AD_TOOL_REGEX(content[1]).m

DetectIn(content, lower) ==
  IF content_contains(lower, "kicad") THEN "KiCad"
  ELSE IF ad_tool_is_match(content) THEN "Altium"
  ELSE IF content_contains(lower, "altium") THEN "Altium"
  ELSE "Unknown"

detect_drill_eda(content) == DetectIn(content, lower_content(content))

(***************************************************************************)
(* Coordinate Decoder (drill.rs:139-191)                                   *)
(***************************************************************************)
RECURSIVE trim_start_signs(_)
trim_start_signs(s) ==
  IF s # "" /\ SubSeq(s, 1, 1) \in {"+", "-"} THEN trim_start_signs(SubSeq(s, 2, Len(s))) ELSE s

\* v / 10^n for a value v in model units, rounded to the model unit.
DivPow10(v, n) == Signed(v < 0, RoundDiv(Abs(v), Pow10(n)))

\* drill.rs:162-175: the integer part has integer_places digits.
lz_value(abs_coord, split_pos) ==
  IF Len(abs_coord) <= split_pos
  THEN parse_f64_or(abs_coord, 0)
  ELSE parse_f64_or(SubSeq(abs_coord, 1, split_pos), 0)
       + DivPow10(parse_f64_or(SubSeq(abs_coord, split_pos + 1, Len(abs_coord)), 0),
                  Len(abs_coord) - split_pos)

ScaleInt(v, decimal_places) ==
  IF decimal_places <= 6 THEN v * Pow10(6 - decimal_places)
  ELSE DivPow10(v, decimal_places - 6)

\* The digit string split after integer_places digits, as in LeadingZero mode.
tz_value_split_as_lz(abs_coord, decimal_places) == lz_value(abs_coord, 2)

\* drill.rs:178-182: the whole digit string over 10^decimal_places.
tz_value(abs_coord, decimal_places) ==
  ScaleInt(ValueOr(parse_i64(abs_coord), 0), decimal_places)

TzOrZero(abs_coord, decimal_places) ==
  IF parse_i64(abs_coord).ok THEN tz_value(abs_coord, decimal_places) ELSE 0

fixed_point(sign, abs_coord, integer_places, decimal_places, is_lz) ==
  sign * (IF is_lz THEN lz_value(abs_coord, integer_places)
          ELSE TzOrZero(abs_coord, decimal_places))

\* unit is "Inch" or "Metric"; the result is in model units of a millimetre.
parse_ad_coordinate(coord, integer_places, decimal_places, is_lz, unit) ==
  to_mm(unit,
        IF contains(coord, ".") THEN parse_f64_or(coord, 0)
        ELSE fixed_point(IF starts_with(coord, "-") THEN -1 ELSE 1,
                         trim_start_signs(coord), integer_places, decimal_places, is_lz))

(***************************************************************************)
(* BTreeMap<K, V> is a function on a finite set of integer keys, iterated  *)
(* in ascending key order                                                  *)
(***************************************************************************)
EmptyMap == <<>>

MapInsert(m, k, v) == [j \in (DOMAIN m) \cup {k} |-> IF j = k THEN v ELSE m[j]]

SetMin(S) == CHOOSE a \in S : \A b \in S : a <= b

RECURSIVE Ascending(_)
Ascending(S) == IF S = {} THEN <<>> ELSE <<SetMin(S)>> \o Ascending(S \ {SetMin(S)})

ValuesAt(m, ks) == [i \in 1..Len(ks) |-> m[ks[i]]]

\* into_values(): the values in ascending key order.
MapValues(m) == ValuesAt(m, Ascending(DOMAIN m))

RECURSIVE SelectSeq2(_, _)
SelectSeq2(seq, keep) ==
  IF seq = <<>> THEN <<>>
  ELSE (IF Head(seq) \in keep THEN <<Head(seq)>> ELSE <<>>) \o SelectSeq2(Tail(seq), keep)

(***************************************************************************)
(* DrillCommand, DrillOperation, DrillFile (drill.rs:27-55)                *)
(***************************************************************************)
Hole(x, y) == [t |-> "Hole", x |-> x, y |-> y]

Slot(sx, sy, ex, ey) ==
  [t |-> "Slot", start_x |-> sx, start_y |-> sy, end_x |-> ex, end_y |-> ey]

DrillOperation(d, ht, cmds) == [diameter |-> d, hole_type |-> ht, commands |-> cmds]

DrillFile(ops) == [operations |-> ops]

\* The non-empty operations of a tool table in ascending tool id order
\* (drill.rs:412-417, 553-557).
NonEmptyOps(all) == SelectSeq2(all, {op \in {all[i] : i \in 1..Len(all)} : op.commands # <<>>})

\* A collection that keeps the operations without commands.
collect_all_operations(tool_operations) == MapValues(tool_operations)

collect_operations(tool_operations) == NonEmptyOps(MapValues(tool_operations))

(***************************************************************************)
(* Generic/Altium parser, first pass (drill.rs:195-261)                    *)
(***************************************************************************)
AdHeaderInit ==
  [tool_map |-> EmptyMap, current_hole_type |-> "Plated", in_header |-> TRUE,
   unit |-> "Metric", integer_places |-> 2, decimal_places |-> 4, is_lz |-> TRUE]

\* LZ sets the mode, else TZ clears it, else it stays (drill.rs:220-224, 227-231).
lz_suffix(h, upper) ==
  IF contains(upper, "LZ") THEN TRUE ELSE IF contains(upper, "TZ") THEN FALSE ELSE h.is_lz

ad_unit_upper(h, upper) ==
  IF starts_with(upper, "INCH")
  THEN [h EXCEPT !.unit = "Inch", !.is_lz = lz_suffix(h, upper)]
  ELSE IF starts_with(upper, "METRIC")
  THEN [h EXCEPT !.unit = "Metric", !.is_lz = lz_suffix(h, upper)]
  ELSE h

\* The unit line: INCH / METRIC with an optional LZ / TZ suffix (drill.rs:217-232).
ad_unit_line(h, line) == ad_unit_upper(h, to_uppercase(line))

ad_set_format(h, caps) ==
  IF caps.m
  THEN [h EXCEPT !.integer_places = parse_u32_or(caps.g1, 2),
                 !.decimal_places = parse_u32_or(caps.g2, 4)]
  ELSE h

\* drill.rs:235-239
ad_format_line(h, line) == ad_set_format(h, FILE_FORMAT_REGEX(line))

\* drill.rs:242-246
ad_type_line(h, line) ==
  IF contains(line, "TYPE=PLATED") /\ ~contains(line, "NON_PLATED")
  THEN [h EXCEPT !.current_hole_type = "Plated"]
  ELSE IF contains(line, "TYPE=NON_PLATED")
  THEN [h EXCEPT !.current_hole_type = "NonPlated"]
  ELSE h

ad_declare(h, caps) ==
  IF caps.m
  THEN [h EXCEPT !.tool_map =
          MapInsert(@, parse_u32_or(caps.g1, 0),
                    [diameter |-> to_mm(h.unit, parse_f64_or(caps.g2, 0)),
                     hole_type |-> h.current_hole_type])]
  ELSE h

\* drill.rs:249-259
ad_tool_line(h, line) == ad_declare(h, AD_TOOL_REGEX(line))

\* A first pass that reads the tool declaration of a line before its TYPE marker.
ad_header_line_tool_first(h, line) ==
  IF line = "%" THEN [h EXCEPT !.in_header = FALSE]
  ELSE IF h.in_header
  THEN ad_type_line(ad_tool_line(ad_format_line(ad_unit_line(h, line), line), line), line)
  ELSE h

ad_header_line(h, line) ==
  IF line = "%" THEN [h EXCEPT !.in_header = FALSE]
  ELSE IF h.in_header
  THEN ad_tool_line(ad_type_line(ad_format_line(ad_unit_line(h, line), line), line), line)
  ELSE h

\* One line of the first pass (drill.rs:207-260).
ad_header_step(h, raw) == ad_header_line(h, trim(raw))

RECURSIVE ad_first_pass(_, _, _)
ad_first_pass(h, content, i) ==
  IF i > Len(content) THEN h ELSE ad_first_pass(ad_header_step(h, content[i]), content, i + 1)

(***************************************************************************)
(* Generic/Altium parser, second pass (drill.rs:263-420)                   *)
(***************************************************************************)
\* commands holds the command list of every declared tool (tool_operations).
AdBodyInit(h) ==
  [current_tool |-> None, in_route |-> FALSE, last_x |-> 0, last_y |-> 0,
   in_header |-> TRUE, commands |-> [k \in DOMAIN h.tool_map |-> <<>>]]

ad_coord(h, tok) ==
  parse_ad_coordinate(tok, h.integer_places, h.decimal_places, h.is_lz, h.unit)

ad_axis(h, group, last) == IF IsSome(group) THEN ad_coord(h, Get(group)) ELSE last

\* A variant that sets an absent axis to zero.
ad_move_absent_zero(h, b, caps) ==
  [b EXCEPT !.last_x = ad_axis(h, caps.x, 0), !.last_y = ad_axis(h, caps.y, 0)]

\* The cursor after a move: an axis that is absent keeps its value.
ad_move(h, b, caps) ==
  [b EXCEPT !.last_x = ad_axis(h, caps.x, @), !.last_y = ad_axis(h, caps.y, @)]

HasTool(b) == IsSome(b.current_tool) /\ Get(b.current_tool) \in DOMAIN b.commands

push_command(b, cmd) ==
  IF HasTool(b) THEN [b EXCEPT !.commands[Get(b.current_tool)] = Append(@, cmd)] ELSE b

\* drill.rs:296-302
\* A tool select that does not look the id up in the tool table.
select_tool_unchecked(h, b, tool_num) == [b EXCEPT !.current_tool = Some(tool_num)]

select_tool(h, b, tool_num) ==
  IF tool_num \in DOMAIN h.tool_map THEN [b EXCEPT !.current_tool = Some(tool_num)] ELSE b

\* A variant that records the end point as a hole.
ad_route_to_as_hole(b, n) == push_command(n, Hole(n.last_x, n.last_y))

\* drill.rs:335-368: b is the state before the move and n the state after it.
ad_route_to(b, n) == push_command(n, Slot(b.last_x, b.last_y, n.last_x, n.last_y))

ad_hole_at(n) == push_command(n, Hole(n.last_x, n.last_y))

\* drill.rs:379-408
ad_hole(h, b, caps) ==
  IF ~IsSome(caps.x) /\ ~IsSome(caps.y) THEN b
  ELSE IF HasTool(b) THEN ad_hole_at(ad_move(h, b, caps))
  ELSE b

ad_body_line(h, b, line) ==
  IF line = "%" THEN [b EXCEPT !.in_header = FALSE]
  ELSE IF b.in_header \/ line = "" \/ starts_with(line, ";") THEN b
  ELSE IF TOOL_SELECT_REGEX(line).m
  THEN select_tool(h, b, parse_u32_or(TOOL_SELECT_REGEX(line).g1, 0))
  ELSE IF ROUTE_START_REGEX(line).m THEN ad_move(h, b, ROUTE_START_REGEX(line))
  ELSE IF line = "M15" THEN [b EXCEPT !.in_route = TRUE]
  ELSE IF b.in_route /\ ROUTE_TO_REGEX(line).m
  THEN ad_route_to(b, ad_move(h, b, ROUTE_TO_REGEX(line)))
  ELSE IF line = "M16" THEN [b EXCEPT !.in_route = FALSE]
  ELSE IF COORD_REGEX(line).m THEN ad_hole(h, b, COORD_REGEX(line))
  ELSE b

\* One line of the second pass (drill.rs:283-410).
ad_body_step(h, b, raw) == ad_body_line(h, b, trim(raw))

RECURSIVE ad_second_pass(_, _, _, _)
ad_second_pass(h, b, content, i) ==
  IF i > Len(content) THEN b
  ELSE ad_second_pass(h, ad_body_step(h, b, content[i]), content, i + 1)

\* The DrillFile of a first-pass result and a second-pass state.
ad_result(h, b) ==
  DrillFile(collect_operations(
    [k \in DOMAIN h.tool_map |->
       DrillOperation(h.tool_map[k].diameter, h.tool_map[k].hole_type, b.commands[k])]))

ad_parse_body(h, content) == ad_result(h, ad_second_pass(h, AdBodyInit(h), content, 1))

parse_ad_excellon(content) == ad_parse_body(ad_first_pass(AdHeaderInit, content, 1), content)

(***************************************************************************)
(* KiCad parser (drill.rs:424-560)                                         *)
(***************************************************************************)
\* drill.rs:429-433: the hole type of the whole file.
kicad_hole_type(content) ==
  IF content_contains(content, "NonPlated") \/ content_contains(content, "NPTH")
  THEN "NonPlated" ELSE "Plated"

kicad_declare(h, caps) ==
  IF h.in_header /\ caps.m
  THEN [h EXCEPT !.tool_map =
          MapInsert(@, parse_u32_or(caps.g1, 0), parse_f64_or(caps.g2, 0))]
  ELSE h

\* A first pass in which every % line flips in_header.
kicad_header_line_reopen(h, line) ==
  IF line = "%" THEN [h EXCEPT !.in_header = ~h.in_header]
  ELSE kicad_declare(h, KICAD_TOOL_REGEX(line))

kicad_header_line(h, line) ==
  IF line = "%" THEN [h EXCEPT !.in_header = FALSE]
  ELSE kicad_declare(h, KICAD_TOOL_REGEX(line))

\* One line of the first pass (drill.rs:438-453): tool_map is id -> diameter.
kicad_header_step(h, raw) == kicad_header_line(h, trim(raw))

KicadHeaderInit == [tool_map |-> EmptyMap, in_header |-> TRUE]

RECURSIVE kicad_first_pass(_, _, _)
kicad_first_pass(h, content, i) ==
  IF i > Len(content) THEN h
  ELSE kicad_first_pass(kicad_header_step(h, content[i]), content, i + 1)

\* panicked: an index caps[n] of a capture group that did not take part in the
\* match aborts the program (regex::Captures, Index<usize>).
KicadBodyInit(h) ==
  [current_tool |-> None, in_route |-> FALSE, route_start |-> None, last_y |-> 0,
   in_header |-> TRUE, commands |-> [k \in DOMAIN h.tool_map |-> <<>>],
   panicked |-> FALSE]

set_route_start(b, x, y) == [b EXCEPT !.route_start = Some(<<x, y>>), !.last_y = y]

\* drill.rs:497-503: caps[1] and caps[2] are indexed whether or not they matched.
kicad_route_start(b, caps) ==
  IF ~IsSome(caps.x) \/ ~IsSome(caps.y) THEN [b EXCEPT !.panicked = TRUE]
  ELSE set_route_start(b, parse_f64_or(Get(caps.x), 0), parse_f64_or(Get(caps.y), 0))

\* drill.rs:517-527: a Slot from route_start, if there is one; last_y advances.
kicad_slot_to(b, end_x, end_y) ==
  [(IF IsSome(b.route_start)
    THEN push_command(b, Slot(Get(b.route_start)[1], Get(b.route_start)[2], end_x, end_y))
    ELSE b)
   EXCEPT !.last_y = end_y]

\* drill.rs:512-515: caps[1] is indexed whether or not it matched.
kicad_route_to(b, caps) ==
  IF ~IsSome(caps.x) THEN [b EXCEPT !.panicked = TRUE]
  ELSE kicad_slot_to(b, parse_f64_or(Get(caps.x), 0),
                     IF IsSome(caps.y) THEN parse_f64_or(Get(caps.y), b.last_y)
                     ELSE b.last_y)

kicad_hole_of(b, caps) ==
  IF caps.m
  THEN push_command(b, Hole(parse_f64_or(Get(caps.x), 0), parse_f64_or(Get(caps.y), 0)))
  ELSE b

\* drill.rs:539-550
kicad_hole(b, line) ==
  IF starts_with(line, "X") /\ contains(line, "Y")
  THEN kicad_hole_of(b, KICAD_COORD_REGEX(line))
  ELSE b

kicad_body_line(h, b, line) ==
  IF b.panicked THEN b
  ELSE IF line = "%" THEN [b EXCEPT !.in_header = FALSE]
  ELSE IF b.in_header \/ line = "" \/ starts_with(line, ";") THEN b
  ELSE IF TOOL_SELECT_REGEX(line).m
  THEN select_tool(h, b, parse_u32_or(TOOL_SELECT_REGEX(line).g1, 0))
  ELSE IF ROUTE_START_REGEX(line).m THEN kicad_route_start(b, ROUTE_START_REGEX(line))
  ELSE IF line = "M15" THEN [b EXCEPT !.in_route = TRUE]
  ELSE IF b.in_route /\ ROUTE_TO_REGEX(line).m THEN kicad_route_to(b, ROUTE_TO_REGEX(line))
  ELSE IF line = "M16" THEN [b EXCEPT !.in_route = FALSE, !.route_start = None]
  ELSE kicad_hole(b, line)

\* One line of the second pass (drill.rs:475-551).
kicad_body_step(h, b, raw) == kicad_body_line(h, b, trim(raw))

RECURSIVE kicad_second_pass(_, _, _, _)
kicad_second_pass(h, b, content, i) ==
  IF i > Len(content) THEN b
  ELSE kicad_second_pass(h, kicad_body_step(h, b, content[i]), content, i + 1)

\* The value returned for a first-pass result, a second-pass state and the hole
\* type of the file; panicked: the call does not return.
kicad_result(h, b, hole_type) ==
  [panicked |-> b.panicked,
   file |-> DrillFile(collect_operations(
              [k \in DOMAIN h.tool_map |->
                 DrillOperation(h.tool_map[k], hole_type, b.commands[k])])),
   hole_type |-> hole_type]

kicad_parse_body(h, content) ==
  kicad_result(h, kicad_second_pass(h, KicadBodyInit(h), content, 1),
               kicad_hole_type(content))

parse_kicad_excellon(content) ==
  kicad_parse_body(kicad_first_pass(KicadHeaderInit, content, 1), content)

(***************************************************************************)
(* Merge & Split Engine (drill.rs:563-615)                                 *)
(***************************************************************************)
\* The diameters (in model units) whose f64 product with 100000.0 lies below the
\* exact product although that is a whole number, so that the cast gives one
\* less: 0.29999 * 100000.0 = 29998.999999999996. Of the diameters this model
\* meets (0.294, 0.296, 0.29972, 0.29999, 0.299996, 0.3, 0.300006, 0.30001, 0.4,
\* 0.8, 1.0) it is the only one.
ShortProducts == {299990}

\* A variant that rounds to a thousandth of a millimetre.
diameter_key_rounded_milli(d) == IF d < 0 THEN 0 ELSE (d + 500) \div 1000

\* (op.diameter * 100000.0) as u64: the cast truncates and saturates at 0.
diameter_key(d) ==
  IF d < 0 THEN 0 ELSE IF d \in ShortProducts THEN d \div 10 - 1 ELSE d \div 10

\* A variant that puts the later commands first.
merge_one_prepend(diameter_map, key, op) ==
  IF key \in DOMAIN diameter_map
  THEN [diameter_map EXCEPT ![key].commands = op.commands \o @]
  ELSE MapInsert(diameter_map, key, op)

\* A variant that keeps the diameter of the operation seen last.
merge_one_last_diameter(diameter_map, key, op) ==
  IF key \in DOMAIN diameter_map
  THEN [diameter_map EXCEPT ![key] = [op EXCEPT !.commands = diameter_map[key].commands \o @]]
  ELSE MapInsert(diameter_map, key, op)

\* drill.rs:607-611
merge_one(diameter_map, key, op) ==
  IF key \in DOMAIN diameter_map
  THEN [diameter_map EXCEPT ![key].commands = @ \o op.commands]
  ELSE MapInsert(diameter_map, key, op)

RECURSIVE merge_into(_, _)
merge_into(diameter_map, ops) ==
  IF ops = <<>> THEN diameter_map
  ELSE merge_into(merge_one(diameter_map, diameter_key(Head(ops).diameter), Head(ops)),
                  Tail(ops))

\* The keys of ops in the order they are first seen.
RECURSIVE first_seen_keys(_, _)
first_seen_keys(ops, seen) ==
  IF ops = <<>> THEN <<>>
  ELSE IF diameter_key(Head(ops).diameter) \in seen THEN first_seen_keys(Tail(ops), seen)
  ELSE <<diameter_key(Head(ops).diameter)>>
         \o first_seen_keys(Tail(ops), seen \cup {diameter_key(Head(ops).diameter)})

\* A variant that returns the merged operations in first-seen order of their keys.
merge_operations_first_seen(ops) ==
  [k \in 1..Len(first_seen_keys(ops, {})) |->
     merge_into(EmptyMap, ops)[first_seen_keys(ops, {})[k]]]

\* drill.rs:600-615
merge_operations_by_diameter(ops) == MapValues(merge_into(EmptyMap, ops))

\* All operations of all files, in file order then operation order.
RECURSIVE all_operations(_)
all_operations(files) ==
  IF files = <<>> THEN <<>> ELSE Head(files).operations \o all_operations(Tail(files))

\* A variant that puts every operation into both buckets.
OfAnyType(ops, ht) == [i \in 1..Len(ops) |-> [ops[i] EXCEPT !.hole_type = ht]]

\* A variant that lets the plated operations into every bucket.
OfTypeOrPlated(ops, ht) ==
  SelectSeq2(ops, {op \in {ops[i] : i \in 1..Len(ops)} :
                     op.hole_type = ht \/ op.hole_type = "Plated"})

OfType(ops, ht) == SelectSeq2(ops, {op \in {ops[i] : i \in 1..Len(ops)} : op.hole_type = ht})

\* drill.rs:580-594
file_option(merged) == IF merged = <<>> THEN None ELSE Some(DrillFile(merged))

split_drills(ops) ==
  [pth |-> file_option(merge_operations_by_diameter(OfType(ops, "Plated"))),
   npth |-> file_option(merge_operations_by_diameter(OfType(ops, "NonPlated")))]

merge_and_split_drills(files) == split_drills(all_operations(files))

(***************************************************************************)
(* Canonical Emitter (drill.rs:619-675, header.rs:61-67)                   *)
(***************************************************************************)
\* The decorator's software name, version and time stamp are drawn at random by
\* header.rs:20-43; they stand in comment lines and one instance is taken here.
get_drill_header(hole_type, layer_name) ==
  << ";TYPE=" \o hole_type,
     ";Layer: " \o layer_name,
     ";EasyEDA v2.1.1.0, 2024-01-01 00:00:00",
     ";Gerber Generator version 0.3" >>

definition_lines(i, d) ==
  << ";Hole size " \o NatToStr(i) \o " = " \o d \o " METRIC", "T" \o Fmt02(i) \o "C" \o d >>

\* drill.rs:634-641
tool_definition_lines(i, op) == definition_lines(i, Fmt5(op.diameter))

command_line(cmd) ==
  IF cmd.t = "Hole"
  THEN "X" \o Fmt5(cmd.x) \o "Y" \o Fmt5(cmd.y)
  ELSE "X" \o Fmt5(cmd.start_x) \o "Y" \o Fmt5(cmd.start_y)
       \o "G85X" \o Fmt5(cmd.end_x) \o "Y" \o Fmt5(cmd.end_y)

RECURSIVE Flatten(_)
Flatten(ss) == IF ss = <<>> THEN <<>> ELSE Head(ss) \o Flatten(Tail(ss))

\* The select of a tool after its commands instead of before them.
tool_body_lines_select_last(i, op) ==
  [k \in 1..Len(op.commands) |-> command_line(op.commands[k])] \o <<"T" \o Fmt02(i)>>

tool_body_lines(i, op) ==
  <<"T" \o Fmt02(i)>> \o [k \in 1..Len(op.commands) |-> command_line(op.commands[k])]

emit_operations(header, ops) ==
  header
  \o <<"M48", "METRIC,LZ,0000.00000">>
  \o Flatten([i \in 1..Len(ops) |-> tool_definition_lines(i, ops[i])])
  \o <<"%", "G05", "G90">>
  \o Flatten([i \in 1..Len(ops) |-> tool_body_lines(i, ops[i])])
  \o <<"M30">>

\* The emitted text as the sequence of its lines.
generate_jlc_excellon(drill, hole_type) ==
  emit_operations(
    IF hole_type = "Plated" THEN get_drill_header("PLATED", "PTH_Through")
    ELSE get_drill_header("NON_PLATED", "NPTH_Through"),
    drill.operations)

(***************************************************************************)
(* Inputs of process_drill_files                                           *)
(***************************************************************************)
\* Generic/Altium export: T01 = 0.3 mm plated, one hole at (0,0).
AdFileA == <<"M48", ";TYPE=PLATED", "T01F00S00C0.3", "%", "T01", "X0Y0", "M30">>

\* Generic/Altium export: T01 = 0.3 mm plated, one hole at (5,5).
AdFileB == <<"M48", ";TYPE=PLATED", "T01F00S00C0.3", "%", "T01", "X5Y5", "M30">>

\* Generic export with two plated tools in descending diameter and a non-plated slot.
AdFileC ==
  <<"M48", "METRIC,LZ", "T01F00S00C0.8", "T02F00S00C0.3", ";TYPE=NON_PLATED",
    "T03F00S00C1.0", "%", "T01", "X1Y1", "T02", "X2Y2", "T03", "G00X3Y3", "M15",
    "G01X4Y3", "M16", "M30">>

\* KiCad plated file with one hole.
KicadPthA == <<"M48", "; DRILL file {KiCad 7.0}", "T1C0.300", "%", "T1", "X10.0Y10.0", "M30">>

\* KiCad plated file, two tools in descending diameter.
KicadPthB ==
  <<"M48", "; DRILL file {KiCad 7.0}", "T1C0.800", "T2C0.400", "%", "T1", "X20.0Y20.0",
    "T2", "X21.0Y21.0", "M30">>

\* KiCad non-plated file with one slot.
KicadNpth ==
  <<"M48", "; DRILL file {KiCad 7.0}", "; #@! TF.FileFunction,NonPlated,1,2,NPTH",
    "T1C1.000", "%", "T1", "G00X30.0Y30.0", "M15", "G01X31.0Y30.0", "M16", "M30">>

\* KiCad plated file that declares a tool and drills nothing.
KicadEmpty == <<"M48", "; DRILL file {KiCad 7.0}", "T1C0.300", "%", "M30">>

\* KiCad file whose body has a G00 line without axes.
KicadBareG00 ==
  <<"M48", "; DRILL file {KiCad 7.0}", "T1C0.300", "%", "T1", "X40.0Y40.0", "G00", "M30">>

ContentCatalog ==
  {AdFileA, AdFileB, AdFileC, KicadPthA, KicadPthB, KicadNpth, KicadEmpty, KicadBareG00}

FilenameCatalog == {"Board.drl", "npth-drill.TXT", "Board.tx3", "Via.TX1"}

\* The most input pairs of one call.
MaxFiles == 2

(***************************************************************************)
(* process_drill_files (drill.rs:678-756) as a state machine: one step per *)
(* iteration of the loop over the input pairs, and the return              *)
(***************************************************************************)
VARIABLES contents, filenames, idx, all_files, warnings, has_kicad_pth,
          has_kicad_npth, kicad_pth_content, kicad_npth_content, pc, result

procVars ==
  <<contents, filenames, idx, all_files, warnings, has_kicad_pth, has_kicad_npth,
    kicad_pth_content, kicad_npth_content, pc, result>>

\* merge_and_split_drills on its own: the files to merge are built one operation
\* at a time, then merged.
VARIABLES m_files, m_pc, m_result

mergeVars == <<m_files, m_pc, m_result>>

\* The two parsers on one text that arrives line by line: the header, then the
\* body lines.
VARIABLES p_header, p_body, p_ad_h, p_ad_b, p_ki_h, p_ki_b

parseVars == <<p_header, p_body, p_ad_h, p_ad_b, p_ki_h, p_ki_b>>

\* parse_kicad_excellon step by step over one content.
VARIABLES k_content, k_pc, k_i, k_hole_type, k_h, k_b, k_result

kicadVars == <<k_content, k_pc, k_i, k_hole_type, k_h, k_b, k_result>>

\* The first pass of parse_ad_excellon on a header that arrives line by line.
VARIABLES hd_lines, hd_h

headerVars == <<hd_lines, hd_h>>

\* The pure functions of the other modules, each applied to a drawn input.
VARIABLES fn_pc, fn_in, fn_out

funcVars == <<fn_pc, fn_in, fn_out>>

vars == <<procVars, mergeVars, parseVars, kicadVars, headerVars, funcVars>>

HeaderIdle == hd_lines = <<>> /\ hd_h = AdHeaderInit

FuncIdle == fn_pc = "idle" /\ fn_in = <<>> /\ fn_out = <<>>

OtherIdle == HeaderIdle /\ FuncIdle

NoSplit == [pth |-> None, npth |-> None]

MergeIdle == m_files = <<>> /\ m_pc = "idle" /\ m_result = NoSplit

ParseIdle ==
  /\ p_header = <<>> /\ p_body = <<>>
  /\ p_ad_h = AdHeaderInit /\ p_ad_b = AdBodyInit(AdHeaderInit)
  /\ p_ki_h = KicadHeaderInit /\ p_ki_b = KicadBodyInit(KicadHeaderInit)

NoKicadResult == [panicked |-> FALSE, file |-> DrillFile(<<>>), hole_type |-> "Plated"]

KicadIdle ==
  /\ k_content = <<>> /\ k_pc = "idle" /\ k_i = 1 /\ k_hole_type = "Plated"
  /\ k_h = KicadHeaderInit /\ k_b = KicadBodyInit(KicadHeaderInit)
  /\ k_result = NoKicadResult

ProcIdle ==
  /\ contents = <<>> /\ filenames = <<>> /\ idx = 1 /\ all_files = <<>>
  /\ warnings = <<>> /\ has_kicad_pth = FALSE /\ has_kicad_npth = FALSE
  /\ kicad_pth_content = None /\ kicad_npth_content = None
  /\ pc = "idle" /\ result = [pth_content |-> None, npth_content |-> None, warnings |-> <<>>]

NoResult == [pth_content |-> None, npth_content |-> None, warnings |-> <<>>]

ProcInit ==
  /\ \E n \in 0..MaxFiles : contents \in [1..n -> ContentCatalog]
  /\ \E n \in 0..MaxFiles : filenames \in [1..n -> FilenameCatalog]
  /\ idx = 1
  /\ all_files = <<>>
  /\ warnings = <<>>
  /\ has_kicad_pth = FALSE
  /\ has_kicad_npth = FALSE
  /\ kicad_pth_content = None
  /\ kicad_npth_content = None
  /\ pc = "loop"
  /\ result = NoResult

\* contents.iter().zip(filenames.iter()): the pairs up to the shorter length.
NumPairs == IF Len(contents) < Len(filenames) THEN Len(contents) ELSE Len(filenames)

skip_warning(filename) ==
  "Skipped blind/buried via file: " \o filename \o ". JLC only supports through holes."

\* drill.rs:688-694
SkipBlindVia ==
  /\ pc = "loop" /\ idx <= NumPairs
  /\ ~is_through_drill(filenames[idx])
  /\ warnings' = Append(warnings, skip_warning(filenames[idx]))
  /\ idx' = idx + 1
  /\ UNCHANGED <<contents, filenames, all_files, has_kicad_pth, has_kicad_npth,
                 kicad_pth_content, kicad_npth_content, pc, result>>
  /\ UNCHANGED <<mergeVars, parseVars, kicadVars, headerVars, funcVars>>

\* drill.rs:703-723: the first file of a plating class is emitted at once, a later
\* one goes to the files to merge.
KeepKicadFile(r) ==
  IF r.hole_type = "Plated"
  THEN /\ IF ~has_kicad_pth
          THEN /\ kicad_pth_content' = Some(generate_jlc_excellon(r.file, "Plated"))
               /\ has_kicad_pth' = TRUE
               /\ all_files' = all_files
          ELSE /\ all_files' = Append(all_files, r.file)
               /\ UNCHANGED <<kicad_pth_content, has_kicad_pth>>
       /\ UNCHANGED <<kicad_npth_content, has_kicad_npth>>
  ELSE /\ IF ~has_kicad_npth
          THEN /\ kicad_npth_content' = Some(generate_jlc_excellon(r.file, "NonPlated"))
               /\ has_kicad_npth' = TRUE
               /\ all_files' = all_files
          ELSE /\ all_files' = Append(all_files, r.file)
               /\ UNCHANGED <<kicad_npth_content, has_kicad_npth>>
       /\ UNCHANGED <<kicad_pth_content, has_kicad_pth>>

\* A panic of the parser ends the call without a result.
KicadOutcome(r) ==
  IF r.panicked
  THEN /\ pc' = "panicked"
       /\ UNCHANGED <<idx, all_files, has_kicad_pth, has_kicad_npth,
                      kicad_pth_content, kicad_npth_content>>
  ELSE /\ pc' = pc
       /\ idx' = idx + 1
       /\ KeepKicadFile(r)

\* drill.rs:699-724
ProcessKicad ==
  /\ pc = "loop" /\ idx <= NumPairs
  /\ is_through_drill(filenames[idx])
  /\ detect_drill_eda(contents[idx]) = "KiCad"
  /\ KicadOutcome(parse_kicad_excellon(contents[idx]))
  /\ UNCHANGED <<contents, filenames, warnings, result>>
  /\ UNCHANGED <<mergeVars, parseVars, kicadVars, headerVars, funcVars>>

\* drill.rs:725-728
ProcessAltium ==
  /\ pc = "loop" /\ idx <= NumPairs
  /\ is_through_drill(filenames[idx])
  /\ detect_drill_eda(contents[idx]) \in {"Altium", "Unknown"}
  /\ all_files' = Append(all_files, parse_ad_excellon(contents[idx]))
  /\ idx' = idx + 1
  /\ UNCHANGED <<contents, filenames, warnings, has_kicad_pth, has_kicad_npth,
                 kicad_pth_content, kicad_npth_content, pc, result>>
  /\ UNCHANGED <<mergeVars, parseVars, kicadVars, headerVars, funcVars>>

\* Option::or
OptionOr(a, b) == IF IsSome(a) THEN a ELSE b

\* Option::map with generate_jlc_excellon
emit_option(file, hole_type) ==
  IF IsSome(file) THEN Some(generate_jlc_excellon(Get(file), hole_type)) ELSE None

\* drill.rs:734-747: m is the pair merge_and_split_drills returned.
merged_result(m, kpth, knpth, warns) ==
  [pth_content |-> OptionOr(emit_option(m.pth, "Plated"), kpth),
   npth_content |-> OptionOr(emit_option(m.npth, "NonPlated"), knpth),
   warnings |-> warns]

\* drill.rs:733-755: the DrillResult of the accumulated state.
final_result(files, kpth, knpth, warns) ==
  IF files # <<>>
  THEN merged_result(merge_and_split_drills(files), kpth, knpth, warns)
  ELSE [pth_content |-> kpth, npth_content |-> knpth, warnings |-> warns]

ReturnResult ==
  /\ pc = "loop" /\ idx > NumPairs
  /\ result' = final_result(all_files, kicad_pth_content, kicad_npth_content, warnings)
  /\ pc' = "done"
  /\ UNCHANGED <<contents, filenames, idx, all_files, warnings, has_kicad_pth,
                 has_kicad_npth, kicad_pth_content, kicad_npth_content>>
  /\ UNCHANGED <<mergeVars, parseVars, kicadVars, headerVars, funcVars>>

Init == ProcInit /\ MergeIdle /\ ParseIdle /\ KicadIdle /\ OtherIdle

Next == SkipBlindVia \/ ProcessKicad \/ ProcessAltium \/ ReturnResult

Spec == Init /\ [][Next]_vars

(***************************************************************************)
(* merge_and_split_drills (drill.rs:563-597) on files built step by step   *)
(***************************************************************************)
\* Diameters in model units: 0.294, 0.296, 0.29999, 0.299996, 0.3, 0.300006 and
\* 0.30001 mm.
PlatedDiameters == {294000, 296000, 299990, 299996, 300000, 300006, 300010}

NonPlatedDiameters == {299996, 300000}

\* The most operations of all files together, and the most files.
MaxOps == 3

MaxMergeFiles == 2

RECURSIVE CountOps(_)
CountOps(files) ==
  IF files = <<>> THEN 0 ELSE Len(Head(files).operations) + CountOps(Tail(files))

\* The n-th operation built drills one hole at (n, 0): its commands tell where
\* an input operation went.
MarkerHole(n) == Hole(n * Unit, 0)

MergeInit ==
  /\ m_files = <<>> /\ m_pc = "build" /\ m_result = NoSplit
  /\ ProcIdle /\ ParseIdle /\ KicadIdle /\ OtherIdle

AddFile ==
  /\ m_pc = "build" /\ Len(m_files) < MaxMergeFiles
  /\ m_files' = Append(m_files, DrillFile(<<>>))
  /\ UNCHANGED <<m_pc, m_result, procVars, parseVars, kicadVars, headerVars, funcVars>>

AppendToLast(files, op) ==
  [files EXCEPT ![Len(files)].operations = Append(@, op)]

AddOperation ==
  /\ m_pc = "build" /\ m_files # <<>> /\ CountOps(m_files) < MaxOps
  /\ \/ \E d \in PlatedDiameters :
          m_files' = AppendToLast(m_files,
                       DrillOperation(d, "Plated", <<MarkerHole(CountOps(m_files) + 1)>>))
     \/ \E d \in NonPlatedDiameters :
          m_files' = AppendToLast(m_files,
                       DrillOperation(d, "NonPlated", <<MarkerHole(CountOps(m_files) + 1)>>))
  /\ UNCHANGED <<m_pc, m_result, procVars, parseVars, kicadVars, headerVars, funcVars>>

MergeFiles ==
  /\ m_pc = "build"
  /\ m_result' = merge_and_split_drills(m_files)
  /\ m_pc' = "done"
  /\ UNCHANGED <<m_files, procVars, parseVars, kicadVars, headerVars, funcVars>>

MergeNext == AddFile \/ AddOperation \/ MergeFiles

SpecMerge == MergeInit /\ [][MergeNext]_vars

(***************************************************************************)
(* The two parsers on a text that arrives line by line                     *)
(***************************************************************************)
\* Headers that declare tool 1 (0.3 mm) for both parsers; they end the header.
HeaderDefault == <<"M48", "T01F00S00C0.3", "T01C0.3", "%">>

HeaderFormat33 == <<"M48", ";FILE_FORMAT=3:3", "T01F00S00C0.3", "T01C0.3", "%">>

HeaderInchTz == <<"M48", "INCH,TZ", "T01F00S00C0.0118", "T01C0.3", "%">>

HeaderCatalog == {HeaderDefault, HeaderFormat33, HeaderInchTz}

BodyLines == {"T01", "G00X100Y200", "M15", "G01X300Y200", "M16", "X1Y1"}

\* The most body lines fed.
MaxBody == 5

\* Both passes of both parsers over the header: the first pass ends at "%", the
\* second pass skips all of it.
ParseInit ==
  /\ p_header \in HeaderCatalog
  /\ p_body = <<>>
  /\ p_ad_h = ad_first_pass(AdHeaderInit, p_header, 1)
  /\ p_ad_b = ad_second_pass(p_ad_h, AdBodyInit(p_ad_h), p_header, 1)
  /\ p_ki_h = kicad_first_pass(KicadHeaderInit, p_header, 1)
  /\ p_ki_b = kicad_second_pass(p_ki_h, KicadBodyInit(p_ki_h), p_header, 1)
  /\ ProcIdle /\ MergeIdle /\ KicadIdle /\ OtherIdle

\* One more line after the header: the first passes ignore it (in_header is
\* false), the second passes take their step.
FeedLine ==
  /\ p_header # <<>> /\ Len(p_body) < MaxBody
  /\ \E line \in BodyLines :
       /\ p_body' = Append(p_body, line)
       /\ p_ad_b' = ad_body_step(p_ad_h, p_ad_b, line)
       /\ p_ki_b' = kicad_body_step(p_ki_h, p_ki_b, line)
  /\ UNCHANGED <<p_header, p_ad_h, p_ki_h, procVars, mergeVars, kicadVars, headerVars, funcVars>>

ParseNext == FeedLine

SpecParse == ParseInit /\ [][ParseNext]_vars

\* The line-by-line states are those of the two-pass parsers on the whole text.
ParseAgrees ==
  p_header # <<>> =>
    /\ ad_result(p_ad_h, p_ad_b) = parse_ad_excellon(p_header \o p_body)
    /\ kicad_result(p_ki_h, p_ki_b, "Plated").file
         = parse_kicad_excellon(p_header \o p_body).file

(***************************************************************************)
(* SpecBody: the second passes of both parsers on body lines with decimal  *)
(* coordinates, after a text that declares tool 1 for both                 *)
(***************************************************************************)
\* The header alone, and the header with a closed routing block of tool 1.
TextHeader == HeaderDefault

TextRouted == HeaderDefault \o <<"T01", "M15", "G01X3.0Y2.0", "M16">>

\* Two tools, the higher id declared first.
TextTwoTools == <<"M48", "T02F00S00C0.5", "T02C0.5", "T01F00S00C0.3", "T01C0.3", "%">>

TextCatalog == {TextHeader, TextRouted, TextTwoTools}

\* T02 is declared in TextTwoTools only; G00X9.0, G01Y5.0 and Y8.0 hold one axis.
MoveLines ==
  {"T01", "T02", "G00X1.0Y2.0", "G00X9.0", "M15", "G01X3.0Y2.0", "G01Y5.0", "M16",
   "X7.0Y7.0", "Y8.0"}

\* The most lines fed after the text.
MaxMoves == 4

BodyInit ==
  /\ p_header \in TextCatalog
  /\ p_body = <<>>
  /\ p_ad_h = ad_first_pass(AdHeaderInit, p_header, 1)
  /\ p_ad_b = ad_second_pass(p_ad_h, AdBodyInit(p_ad_h), p_header, 1)
  /\ p_ki_h = kicad_first_pass(KicadHeaderInit, p_header, 1)
  /\ p_ki_b = kicad_second_pass(p_ki_h, KicadBodyInit(p_ki_h), p_header, 1)
  /\ ProcIdle /\ MergeIdle /\ KicadIdle /\ OtherIdle

\* One more line: both second passes take their step (drill.rs:283-410, 475-551).
FeedMove ==
  /\ Len(p_body) < MaxMoves
  /\ \E line \in MoveLines :
       /\ p_body' = Append(p_body, line)
       /\ p_ad_b' = ad_body_step(p_ad_h, p_ad_b, line)
       /\ p_ki_b' = kicad_body_step(p_ki_h, p_ki_b, line)
  /\ UNCHANGED <<p_header, p_ad_h, p_ki_h, procVars, mergeVars, kicadVars, headerVars, funcVars>>

BodyNext == FeedMove

SpecBody == BodyInit /\ [][BodyNext]_vars

\* ---------------------------------------------------------------------------
\* Whole contents without a fixed header: the content grows by one line and
\* both parsers read all of it again (drill.rs:195-420, 424-560).
\* ---------------------------------------------------------------------------

ContentLines == {"%", "T01F00S00C0.3", "T01C0.3", "T01", "X7.0Y7.0"}

MaxLines == 5

ContentInit ==
  /\ p_header = <<>>
  /\ p_body = <<>>
  /\ p_ad_h = AdHeaderInit
  /\ p_ad_b = AdBodyInit(AdHeaderInit)
  /\ p_ki_h = KicadHeaderInit
  /\ p_ki_b = KicadBodyInit(KicadHeaderInit)
  /\ ProcIdle /\ MergeIdle /\ KicadIdle /\ OtherIdle

ParseContent(content, ah, kh) ==
  /\ p_header' = content
  /\ p_ad_h' = ah
  /\ p_ad_b' = ad_second_pass(ah, AdBodyInit(ah), content, 1)
  /\ p_ki_h' = kh
  /\ p_ki_b' = kicad_second_pass(kh, KicadBodyInit(kh), content, 1)

AppendLine ==
  /\ Len(p_header) < MaxLines
  /\ \E line \in ContentLines :
       ParseContent(Append(p_header, line),
                    ad_first_pass(AdHeaderInit, Append(p_header, line), 1),
                    kicad_first_pass(KicadHeaderInit, Append(p_header, line), 1))
  /\ UNCHANGED <<p_body, procVars, mergeVars, kicadVars, headerVars, funcVars>>

ContentNext == AppendLine

SpecContent == ContentInit /\ [][ContentNext]_vars

(***************************************************************************)
(* parse_kicad_excellon (drill.rs:424-560), one statement or line a step   *)
(***************************************************************************)
KicadMarkers ==
  {"; #@! TF.FileFunction,NonPlated,1,2,NPTH", "; #@! TF.FileFunction,Plated,1,2,PTH",
   "; NonPlated", "; NPTH holes", "; npth", "; Npth", "; NONPLATED", "; nonplated drill",
   ";TYPE=NON_PLATED", "; DRILL file {KiCad 7.0}"}

MarkerInHeader(marker) == <<"M48", marker, "T1C0.300", "%", "T1", "X1.0Y1.0", "M30">>

MarkerInBody(marker) == <<"M48", "T1C0.300", "%", "T1", marker, "X1.0Y1.0", "M30">>

KicadCatalog ==
  {MarkerInHeader(marker) : marker \in KicadMarkers}
    \cup {MarkerInBody(marker) : marker \in KicadMarkers}
    \cup {KicadBareG00}

KicadInit ==
  /\ k_content \in KicadCatalog
  /\ k_pc = "start" /\ k_i = 1 /\ k_hole_type = "Plated"
  /\ k_h = KicadHeaderInit /\ k_b = KicadBodyInit(KicadHeaderInit)
  /\ k_result = NoKicadResult
  /\ ProcIdle /\ MergeIdle /\ ParseIdle /\ OtherIdle

\* drill.rs:429-435
KicadClassify ==
  /\ k_pc = "start"
  /\ k_hole_type' = kicad_hole_type(k_content)
  /\ k_pc' = "header"
  /\ UNCHANGED <<k_content, k_i, k_h, k_b, k_result, procVars, mergeVars, parseVars, headerVars, funcVars>>

\* drill.rs:438-453
KicadHeaderLine ==
  /\ k_pc = "header" /\ k_i <= Len(k_content)
  /\ k_h' = kicad_header_step(k_h, k_content[k_i])
  /\ k_i' = k_i + 1
  /\ UNCHANGED <<k_content, k_pc, k_hole_type, k_b, k_result,
                 procVars, mergeVars, parseVars, headerVars, funcVars>>

\* drill.rs:455-473
KicadInitOperations ==
  /\ k_pc = "header" /\ k_i > Len(k_content)
  /\ k_b' = KicadBodyInit(k_h)
  /\ k_i' = 1
  /\ k_pc' = "body"
  /\ UNCHANGED <<k_content, k_hole_type, k_h, k_result, procVars, mergeVars, parseVars, headerVars, funcVars>>

KicadAfterLine(b) ==
  /\ k_b' = b
  /\ IF b.panicked THEN k_pc' = "panicked" /\ k_i' = k_i
     ELSE k_pc' = k_pc /\ k_i' = k_i + 1

\* drill.rs:475-551
KicadBodyLine ==
  /\ k_pc = "body" /\ k_i <= Len(k_content)
  /\ KicadAfterLine(kicad_body_step(k_h, k_b, k_content[k_i]))
  /\ UNCHANGED <<k_content, k_hole_type, k_h, k_result, procVars, mergeVars, parseVars, headerVars, funcVars>>

\* drill.rs:553-559
KicadReturn ==
  /\ k_pc = "body" /\ k_i > Len(k_content)
  /\ k_result' = kicad_result(k_h, k_b, k_hole_type)
  /\ k_pc' = "done"
  /\ UNCHANGED <<k_content, k_i, k_hole_type, k_h, k_b, procVars, mergeVars, parseVars, headerVars, funcVars>>

KicadNext ==
  KicadClassify \/ KicadHeaderLine \/ KicadInitOperations \/ KicadBodyLine \/ KicadReturn

SpecKicad == KicadInit /\ [][KicadNext]_vars

\* The stepwise parse returns what parse_kicad_excellon returns.
KicadAgrees == k_pc = "done" => k_result = parse_kicad_excellon(k_content)

(***************************************************************************)
(* SpecHeader: the first pass of parse_ad_excellon, one header line at a   *)
(* time, the lines in any order                                            *)
(***************************************************************************)
UnitLines == {"INCH,TZ", "METRIC,LZ"}

ToolLines == {"T01F00S00C0.0118", "T02F00S00C0.5", "T03F00S00C0.8;TYPE=NON_PLATED"}

TypeLines == {";TYPE=PLATED", ";TYPE=NON_PLATED"}

FormatLines == {";FILE_FORMAT=3:3"}

MaxHeader == 4

HeaderInit ==
  /\ hd_lines = <<>>
  /\ hd_h = AdHeaderInit
  /\ ProcIdle /\ MergeIdle /\ ParseIdle /\ KicadIdle /\ FuncIdle

\* One more line of the content goes through the first pass (drill.rs:207-260).
HeaderFeed(line) ==
  /\ Len(hd_lines) < MaxHeader
  /\ hd_lines' = Append(hd_lines, line)
  /\ hd_h' = ad_header_step(hd_h, line)
  /\ UNCHANGED <<procVars, mergeVars, parseVars, kicadVars, funcVars>>

HeaderUnitLine == \E line \in UnitLines : HeaderFeed(line)

HeaderToolLine == \E line \in ToolLines : HeaderFeed(line)

HeaderTypeLine == \E line \in TypeLines : HeaderFeed(line)

HeaderFormatLine == \E line \in FormatLines : HeaderFeed(line)

HeaderEndLine == HeaderFeed("%")

HeaderNext ==
  \/ HeaderUnitLine
  \/ HeaderToolLine
  \/ HeaderTypeLine
  \/ HeaderFormatLine
  \/ HeaderEndLine

SpecHeader == HeaderInit /\ [][HeaderNext]_vars

\* The line-by-line pass computes what the whole first pass computes.
HeaderAgrees == hd_h = ad_first_pass(AdHeaderInit, hd_lines, 1)

(***************************************************************************)
(* SpecCoord: parse_ad_coordinate applied to a drawn token, format, mode   *)
(* and unit                                                                *)
(***************************************************************************)
CoordDigits == {"0", "1", "5"}

MaxDigits == 3

\* The strings of n digits of CoordDigits.
RECURSIVE DigitStrings(_)
DigitStrings(n) ==
  IF n = 0 THEN {""} ELSE {d \o t : d \in CoordDigits, t \in DigitStrings(n - 1)}

DigitTokens == UNION {DigitStrings(n) : n \in 1..MaxDigits}

CoordTokens ==
  DigitTokens \cup {"-" \o t : t \in DigitTokens} \cup {"1.5", "-0.25", "+15", "-"}

\* <<integer_places, decimal_places>>
CoordFormats == {<<1, 2>>, <<2, 2>>, <<1, 3>>, <<2, 4>>}

CoordInputs ==
  [coord : CoordTokens, format : CoordFormats, is_lz : BOOLEAN, unit : {"Metric", "Inch"}]

CoordInit ==
  /\ fn_pc = "call"
  /\ fn_in \in CoordInputs
  /\ fn_out = <<>>
  /\ ProcIdle /\ MergeIdle /\ ParseIdle /\ KicadIdle /\ HeaderIdle

\* drill.rs:139-191
CoordDecode ==
  /\ fn_pc = "call"
  /\ fn_out' = <<parse_ad_coordinate(fn_in.coord, fn_in.format[1], fn_in.format[2],
                                      fn_in.is_lz, fn_in.unit)>>
  /\ fn_pc' = "done"
  /\ UNCHANGED <<fn_in, procVars, mergeVars, parseVars, kicadVars, headerVars>>

CoordNext == CoordDecode

SpecCoord == CoordInit /\ [][CoordNext]_vars

(***************************************************************************)
(* SpecNames: is_drill_file and is_through_drill applied to a drawn name   *)
(***************************************************************************)
NameStems == {"", "a", "hole", "DRILL", "Board", "pcb-Hole", "drl", "x.tx1"}

NameExtensions ==
  {".drl", ".DRL", ".txt", ".TXT", ".tx1", ".tx2", ".tx3", ".tx4", ".tx5", ".tx6",
   ".TX3", ".tx7", ".tx0", ".gbr", "", ".drl.bak", ".txt1"}

NameCatalog == {st \o ext : st \in NameStems, ext \in NameExtensions}

NamesInit ==
  /\ fn_pc = "names"
  /\ fn_in \in NameCatalog
  /\ fn_out = EmptyMap
  /\ ProcIdle /\ MergeIdle /\ ParseIdle /\ KicadIdle /\ HeaderIdle

\* drill.rs:92-102
CallIsDrillFile ==
  /\ fn_pc = "names" /\ "is_drill_file" \notin DOMAIN fn_out
  /\ fn_out' = MapInsert(fn_out, "is_drill_file", is_drill_file(fn_in))
  /\ UNCHANGED <<fn_pc, fn_in, procVars, mergeVars, parseVars, kicadVars, headerVars>>

\* drill.rs:105-114
CallIsThroughDrill ==
  /\ fn_pc = "names" /\ "is_through_drill" \notin DOMAIN fn_out
  /\ fn_out' = MapInsert(fn_out, "is_through_drill", is_through_drill(fn_in))
  /\ UNCHANGED <<fn_pc, fn_in, procVars, mergeVars, parseVars, kicadVars, headerVars>>

NamesNext == CallIsDrillFile \/ CallIsThroughDrill

SpecNames == NamesInit /\ [][NamesNext]_vars

\* ---------------------------------------------------------------------------
\* detect_drill_eda and the parser process_drill_files chooses, applied to
\* contents of up to MaxContent lines.
\* ---------------------------------------------------------------------------

DetectLines ==
  {"M48", "T01F00S00C0.3", "T1C0.3", "; KiCad 7.0", ";DRILL file {KICAD}", ";Altium Designer"}

MaxContent == 3

DetectContents == UNION {[1..n -> DetectLines] : n \in 0..MaxContent}

DetectInit ==
  /\ fn_pc = "detect"
  /\ fn_in \in DetectContents
  /\ fn_out = EmptyMap
  /\ ProcIdle /\ MergeIdle /\ ParseIdle /\ KicadIdle /\ HeaderIdle

\* drill.rs:124-136
CallDetect ==
  /\ fn_pc = "detect" /\ "eda" \notin DOMAIN fn_out
  /\ fn_out' = MapInsert(fn_out, "eda", detect_drill_eda(fn_in))
  /\ UNCHANGED <<fn_pc, fn_in, procVars, mergeVars, parseVars, kicadVars, headerVars>>

\* drill.rs:700-728: the match on the detected type
CallParser ==
  /\ fn_pc = "detect" /\ "eda" \in DOMAIN fn_out /\ "parser" \notin DOMAIN fn_out
  /\ fn_out' = MapInsert(fn_out, "parser",
                         IF fn_out["eda"] = "KiCad" THEN "parse_kicad_excellon"
                         ELSE "parse_ad_excellon")
  /\ UNCHANGED <<fn_pc, fn_in, procVars, mergeVars, parseVars, kicadVars, headerVars>>

DetectNext == CallDetect \/ CallParser

SpecDetect == DetectInit /\ [][DetectNext]_vars

(***************************************************************************)
(* validate_gerber_files (validation.rs)                                   *)
(***************************************************************************)
REQUIRED_PREFIXES ==
  <<"Gerber_BoardOutlineLayer", "Gerber_TopLayer", "Gerber_TopSolderMaskLayer">>

\* files.iter().any(|f| f.starts_with(prefix))
any_starts_with(files, prefix) == \E i \in 1..Len(files) : starts_with(files[i], prefix)

\* files.iter().filter(|f| f.starts_with(prefix)).count()
count_starts_with(files, prefix) ==
  Cardinality({i \in 1..Len(files) : starts_with(files[i], prefix)})

push_if(list, cond, msg) == IF cond THEN Append(list, msg) ELSE list

\* validation.rs:43-47
missing_required(files) ==
  Flatten([k \in 1..Len(REQUIRED_PREFIXES) |->
             IF any_starts_with(files, REQUIRED_PREFIXES[k]) THEN <<>>
             ELSE <<"Missing required file starting with: '" \o REQUIRED_PREFIXES[k] \o "'">>])

\* validation.rs:60-74: the message is pushed unless an error names the layer.
top_mask_error(files, errors) ==
  push_if(errors,
          /\ any_starts_with(files, "Gerber_TopLayer")
          /\ ~any_starts_with(files, "Gerber_TopSolderMaskLayer")
          /\ ~\E k \in 1..Len(errors) : contains(errors[k], "Gerber_TopSolderMaskLayer"),
          "Top copper layer is present, but the required 'Gerber_TopSolderMaskLayer' is missing.")

\* validation.rs:93-102
bottom_mask_error(files, errors) ==
  push_if(errors,
          /\ any_starts_with(files, "Gerber_BottomLayer")
          /\ ~any_starts_with(files, "Gerber_BottomSolderMaskLayer"),
          "Bottom copper layer is present, but 'Gerber_BottomSolderMaskLayer' is missing.")

\* No rule on the stackup.
stackup_error_never(files, errors) == errors

\* validation.rs:124-126
stackup_error(files, errors) ==
  push_if(errors,
          /\ any_starts_with(files, "Gerber_TopLayer")
          /\ count_starts_with(files, "Gerber_InnerLayer") > 0
          /\ ~any_starts_with(files, "Gerber_BottomLayer"),
          "Invalid layer stackup: A board with top and inner copper layers must also have a bottom copper layer.")

validation_errors(files) ==
  stackup_error(files, bottom_mask_error(files, top_mask_error(files, missing_required(files))))

\* A warning for a layer that is missing on a side whose copper layer exists.
side_warning(files, list, copper, layer, msg) ==
  push_if(list, any_starts_with(files, copper) /\ ~any_starts_with(files, layer), msg)

\* validation.rs:75-88
top_warnings(files) ==
  side_warning(files,
    side_warning(files, <<>>, "Gerber_TopLayer", "Gerber_TopSilkscreenLayer",
                 "Warning: 'Gerber_TopSilkscreenLayer' is missing for the top side."),
    "Gerber_TopLayer", "Gerber_TopPasteMaskLayer",
    "Warning: 'Gerber_TopPasteMaskLayer' is missing. This is usually needed for SMD components.")

\* validation.rs:103-120
validation_warnings(files) ==
  side_warning(files,
    side_warning(files, top_warnings(files), "Gerber_BottomLayer",
                 "Gerber_BottomSilkscreenLayer",
                 "Warning: 'Gerber_BottomSilkscreenLayer' is missing for the bottom side."),
    "Gerber_BottomLayer", "Gerber_BottomPasteMaskLayer",
    "Warning: 'Gerber_BottomPasteMaskLayer' is missing for the bottom side.")

\* validation.rs:129-130
total_layer_count(files) ==
  (IF any_starts_with(files, "Gerber_TopLayer") THEN 1 ELSE 0)
  + (IF any_starts_with(files, "Gerber_BottomLayer") THEN 1 ELSE 0)
  + count_starts_with(files, "Gerber_InnerLayer")

\* Ok(ValidationReport) or Err(errors) (validation.rs:133-138)
validation_result(files, errors) ==
  IF errors = <<>>
  THEN [ok |-> TRUE, layer_count |-> total_layer_count(files),
        warnings |-> validation_warnings(files)]
  ELSE [ok |-> FALSE, errors |-> errors]

validate_gerber_files(files) == validation_result(files, validation_errors(files))

(***************************************************************************)
(* SpecValidate: validate_gerber_files applied to a drawn list of names    *)
(***************************************************************************)
\* Standard names after renaming, and one name in lower case.
GerberNames ==
  <<"Gerber_BoardOutlineLayer.GKO", "Gerber_TopLayer.GTL", "Gerber_TopSolderMaskLayer.GTS",
    "Gerber_BottomLayer.GBL", "Gerber_BottomSolderMaskLayer.GBS",
    "Gerber_InnerLayer1.G1", "Gerber_InnerLayer2.G2",
    "Gerber_TopSilkscreenLayer.GTO", "Gerber_TopPasteMaskLayer.GTP",
    "Gerber_BottomSilkscreenLayer.GBO", "Gerber_BottomPasteMaskLayer.GBP",
    "gerber_toplayer.gtl">>

\* The lists that hold any of the names, each at most once.
GerberLists ==
  {SelectSeq2(GerberNames, S) : S \in SUBSET {GerberNames[k] : k \in DOMAIN GerberNames}}

ValidateInit ==
  /\ fn_pc = "validate"
  /\ fn_in \in GerberLists
  /\ fn_out = <<>>
  /\ ProcIdle /\ MergeIdle /\ ParseIdle /\ KicadIdle /\ HeaderIdle

\* validation.rs:38-138
Validate ==
  /\ fn_pc = "validate"
  /\ fn_out' = validate_gerber_files(fn_in)
  /\ fn_pc' = "validated"
  /\ UNCHANGED <<fn_in, procVars, mergeVars, parseVars, kicadVars, headerVars>>

ValidateNext == Validate

SpecValidate == ValidateInit /\ [][ValidateNext]_vars

(***************************************************************************)
(* process_d_codes (dcode.rs)                                              *)
(***************************************************************************)
\* Only the aperture definitions are skipped.
skip_aperture_lines(line) == contains(line, "%ADD")

\* dcode.rs:32
skip_d_codes(line) == contains(line, "%ADD") \/ contains(line, "G54D")

\* current_line[search_pos..].find('D'): the position of the first D at or after
\* search_pos, 0 if there is none.
RECURSIVE find_d(_, _)
find_d(line, search_pos) ==
  IF search_pos > Len(line) THEN 0
  ELSE IF SubSeq(line, search_pos, search_pos) = "D" THEN search_pos
  ELSE find_d(line, search_pos + 1)

\* dcode.rs:50-52: the digits after the D at d end before e.
is_d_code(line, d, e) == (e - d - 1) \in 2..4 /\ e <= Len(line) /\ Ch(line, e) = "*"

RECURSIVE scan_d_codes(_, _, _, _)

\* dcode.rs:53-67
scan_at(line, d, e, last_pos, updated_line) ==
  IF is_d_code(line, d, e)
  THEN scan_d_codes(line, e + 1, e + 1,
                    updated_line \o SubSeq(line, last_pos, d - 1) \o "G54" \o SubSeq(line, d, e))
  ELSE scan_d_codes(line, d + 1, last_pos, updated_line)

\* dcode.rs:43-47
scan_from(line, d, last_pos, updated_line) ==
  IF d = 0 THEN updated_line \o SubSeq(line, last_pos, Len(line))
  ELSE scan_at(line, d, RunEnd(line, d + 1, Digits), last_pos, updated_line)

\* dcode.rs:42-71: positions count from 1.
scan_d_codes(line, search_pos, last_pos, updated_line) ==
  scan_from(line, find_d(line, search_pos), last_pos, updated_line)

\* dcode.rs:30-73
process_d_line(line) == IF skip_d_codes(line) THEN line ELSE scan_d_codes(line, 1, 1, "")

\* The data is the sequence of the lines between its line breaks (split and join
\* at "\n", dcode.rs:27 and 76); a text without a line break is one line.
process_d_codes(gerber_data) ==
  [k \in 1..Len(gerber_data) |-> process_d_line(gerber_data[k])]

(***************************************************************************)
(* SpecDcode: process_d_codes applied to a drawn text, and to its output   *)
(***************************************************************************)
DcodePieces == {"D", "1", "22", "*", "G54", "%ADD"}

MaxPieces == 4

\* The lines made of n pieces.
RECURSIVE PieceLines(_)
PieceLines(n) ==
  IF n = 0 THEN {""} ELSE {a \o t : a \in DcodePieces, t \in PieceLines(n - 1)}

DcodeLines ==
  UNION {PieceLines(n) : n \in 0..MaxPieces}
    \cup {"D12345*", "X0Y0D02*", "%ADD10C,0.1*%", "G04 D10 *", "D10*X1D100*DD1234*"}

SecondLines == {"D10*", "G54D11*"}

DcodeInit ==
  /\ fn_pc = "dcode"
  /\ \/ \E l \in DcodeLines : fn_in = <<l>>
     \/ \E l \in DcodeLines : \E m \in SecondLines : fn_in = <<l, m>>
  /\ fn_out = <<>>
  /\ ProcIdle /\ MergeIdle /\ ParseIdle /\ KicadIdle /\ HeaderIdle

\* The call on the drawn text.
ProcessDcodes ==
  /\ fn_pc = "dcode" /\ fn_out = <<>>
  /\ fn_out' = <<process_d_codes(fn_in)>>
  /\ UNCHANGED <<fn_pc, fn_in, procVars, mergeVars, parseVars, kicadVars, headerVars>>

\* The call on the text that the first call returned.
ProcessDcodesAgain ==
  /\ fn_pc = "dcode" /\ Len(fn_out) = 1
  /\ fn_out' = Append(fn_out, process_d_codes(fn_out[1]))
  /\ UNCHANGED <<fn_pc, fn_in, procVars, mergeVars, parseVars, kicadVars, headerVars>>

DcodeNext == ProcessDcodes \/ ProcessDcodesAgain

SpecDcode == DcodeInit /\ [][DcodeNext]_vars

(***************************************************************************)
(* Properties of process_drill_files, checked under Spec                   *)
(***************************************************************************)
\* A filename that ends in .tx1 to .tx6, whatever the case of its letters.
BlindViaName(f) ==
  /\ Len(f) >= 4
  /\ to_lowercase(SubSeq(f, Len(f) - 3, Len(f)))
       \in {".tx1", ".tx2", ".tx3", ".tx4", ".tx5", ".tx6"}

\* The blind-via and the through-hole pairs among the first n input pairs.
BlindPairs(n) == {i \in 1..n : BlindViaName(filenames[i])}

ThroughPairs(n) == {i \in 1..n : ~BlindViaName(filenames[i])}

Flag(b) == IF b THEN 1 ELSE 0

\* What the parser chosen for input i returns (the call must have returned).
ParsedOps(i) ==
  IF detect_drill_eda(contents[i]) = "KiCad"
  THEN parse_kicad_excellon(contents[i]).file.operations
  ELSE parse_ad_excellon(contents[i]).operations

\* The operations of a plating class that the through-hole inputs hold, in
\* input order.
InputOps(ht) ==
  OfType(Flatten([i \in 1..NumPairs |->
                    IF BlindViaName(filenames[i]) THEN <<>> ELSE ParsedOps(i)]), ht)

ClassText(ht) == IF ht = "Plated" THEN result.pth_content ELSE result.npth_content

InText(text, line) == IsSome(text) /\ \E k \in 1..Len(Get(text)) : Get(text)[k] = line

HoleTypes == {"Plated", "NonPlated"}

\* The tool declaration lines "TnnCd.ddddd" of an emitted text, in order.
DeclaredLines(lines) ==
  SelectSeq2(lines, {l \in {lines[k] : k \in 1..Len(lines)} : KICAD_TOOL_REGEX(l).m})

\* The declaration lines of operations that hold the ids 1, 2, ... in this order.
DeclarationsOf(ops) ==
  [k \in 1..Len(ops) |-> "T" \o Fmt02(k) \o "C" \o Fmt5(ops[k].diameter)]

\* The lines of an emitted text that are no comments.
ProgramLines(lines) ==
  SelectSeq2(lines, {l \in {lines[k] : k \in 1..Len(lines)} : ~starts_with(l, ";")})

\* C1: process_drill_files returns a DrillResult for every input; no call ends
\* in a panic, whatever G00 and G01 lines the contents hold.
C1_AlwaysReturns == pc # "panicked"

\* C2: once the call has returned, every command that a parser recorded from a
\* through-hole input stands in the emitted text of its plating class.
C2_NoCommandLost ==
  pc = "done" =>
    \A i \in ThroughPairs(NumPairs) :
      \A n \in 1..Len(ParsedOps(i)) :
        \A k \in 1..Len(ParsedOps(i)[n].commands) :
          InText(ClassText(ParsedOps(i)[n].hole_type),
                 command_line(ParsedOps(i)[n].commands[k]))

\* The skip of blind-via files while the loop runs and at the return: after
\* idx - 1 input pairs there is exactly one warning for each pair whose filename
\* ends in .tx1 to .tx6 (in any case), that warning names the file, and exactly
\* the other pairs were parsed and kept; the result carries the warnings.
BlindViasSkippedSoFar ==
  /\ pc \in {"loop", "done"} =>
       /\ Len(warnings) = Cardinality(BlindPairs(idx - 1))
       /\ \A w \in 1..Len(warnings) :
            \E i \in BlindPairs(idx - 1) : warnings[w] = skip_warning(filenames[i])
       /\ Len(all_files) + Flag(has_kicad_pth) + Flag(has_kicad_npth)
            = Cardinality(ThroughPairs(idx - 1))
  /\ pc = "done" =>
       /\ idx = NumPairs + 1
       /\ result.warnings = warnings

\* C3: when the call has ended, there is exactly one warning for each input
\* pair whose filename ends in .tx1 to .tx6 (in any case), and every other pair
\* was parsed and kept.
C3_OneWarningPerBlindVia ==
  pc \in {"done", "panicked"} =>
    /\ Len(warnings) = Cardinality(BlindPairs(NumPairs))
    /\ Len(all_files) + Flag(has_kicad_pth) + Flag(has_kicad_npth)
         = Cardinality(ThroughPairs(NumPairs))

\* The distinct operations of ops by diameter key, each the first one seen
\* with its key, in first-seen order.
RECURSIVE FirstSeen(_, _)
FirstSeen(ops, seen) ==
  IF ops = <<>> THEN <<>>
  ELSE IF diameter_key(Head(ops).diameter) \in seen THEN FirstSeen(Tail(ops), seen)
  ELSE <<Head(ops)>> \o FirstSeen(Tail(ops), seen \cup {diameter_key(Head(ops).diameter)})

\* The same operations in ascending order of their keys.
AscendingByKey(ops) ==
  LET firsts == FirstSeen(ops, {})
      keys == Ascending({diameter_key(firsts[k].diameter) : k \in 1..Len(firsts)})
  IN  [n \in 1..Len(keys) |->
         firsts[CHOOSE k \in 1..Len(firsts) : diameter_key(firsts[k].diameter) = keys[n]]]

\* C6 as stated: tool id k of an emitted text is declared with the k-th
\* diameter in first-seen order of the class's operations in input order.
C6_FirstSeenOrder ==
  pc = "done" =>
    \A ht \in HoleTypes :
      IsSome(ClassText(ht)) =>
        DeclaredLines(Get(ClassText(ht))) = DeclarationsOf(FirstSeen(InputOps(ht), {}))

\* The first KiCad input of a plating class among the through-hole pairs.
KicadPairs(ht) ==
  {i \in ThroughPairs(NumPairs) :
     detect_drill_eda(contents[i]) = "KiCad" /\ kicad_hole_type(contents[i]) = ht}

\* C6, amended: the ids are 1..n in the order of the emitted operations. A text
\* that comes out of the merge declares the k-th smallest diameter key of the
\* merged class as tool k (with the diameter first seen for that key); a KiCad
\* file emitted directly declares its operations in the parser's order.
C6_AscendingKeyOrder ==
  pc = "done" =>
    \A ht \in HoleTypes :
      IF OfType(all_operations(all_files), ht) # <<>>
      THEN /\ IsSome(ClassText(ht))
           /\ DeclaredLines(Get(ClassText(ht)))
                = DeclarationsOf(AscendingByKey(OfType(all_operations(all_files), ht)))
      ELSE IF KicadPairs(ht) # {}
      THEN /\ IsSome(ClassText(ht))
           /\ DeclaredLines(Get(ClassText(ht)))
                = DeclarationsOf(ParsedOps(SetMin(KicadPairs(ht))))
      ELSE ClassText(ht) = None

\* A merged text whose ascending key order differs from the first-seen order.
C6_Witness ==
  /\ pc = "done"
  /\ contents = <<AdFileC>> /\ ThroughPairs(NumPairs) = {1}
  /\ IsSome(result.pth_content)
  /\ DeclaredLines(Get(result.pth_content)) = <<"T01C0.30000", "T02C0.80000">>

\* Every T line of the body is followed by a coordinate line.
EveryToolDrills(lines) ==
  \A k \in 1..Len(lines) :
    TOOL_SELECT_REGEX(lines[k]).m =>
      k < Len(lines) /\ starts_with(lines[k + 1], "X")

\* C7: a plating class without any command in the through-hole inputs yields
\* None, and every emitted text declares at least one tool, each with at least
\* one command.
C7_NoneOrTools ==
  pc = "done" =>
    \A ht \in HoleTypes :
      /\ InputOps(ht) = <<>> => ClassText(ht) = None
      /\ IsSome(ClassText(ht)) =>
           /\ DeclaredLines(Get(ClassText(ht))) # <<>>
           /\ EveryToolDrills(Get(ClassText(ht)))

\* C8: two Altium inputs that each declare T01 = 0.3 mm plated with one hole,
\* at (0,0) and at (5,5), give one plated program with one 0.3 mm tool that
\* drills the two holes in that order, and no non-plated program.
C8_TwoFilesOneTool ==
  (/\ pc = "done"
   /\ contents = <<AdFileA, AdFileB>>
   /\ ThroughPairs(NumPairs) = {1, 2})
  => /\ IsSome(result.pth_content)
     /\ ProgramLines(Get(result.pth_content))
          = <<"M48", "METRIC,LZ,0000.00000", "T01C0.30000", "%", "G05", "G90",
              "T01", "X0.00000Y0.00000", "X5.00000Y5.00000", "M30">>
     /\ result.npth_content = None

C8_Witness ==
  /\ pc = "done"
  /\ contents = <<AdFileA, AdFileB>>
  /\ ThroughPairs(NumPairs) = {1, 2}
  /\ InText(result.pth_content, "X5.00000Y5.00000")

\* The DrillFile of a plating class that process_drill_files hands to
\* generate_jlc_excellon (drill.rs:734-741), if any.
EmittedFile(ht) ==
  IF all_files = <<>> THEN None
  ELSE IF ht = "Plated" THEN merge_and_split_drills(all_files).pth
  ELSE merge_and_split_drills(all_files).npth

\* The number of comment lines a text starts with.
RECURSIVE LeadingComments(_, _)
LeadingComments(lines, k) ==
  IF k <= Len(lines) /\ starts_with(lines[k], ";") THEN LeadingComments(lines, k + 1)
  ELSE k - 1

\* The lines that the selects and the commands of the first n operations take.
RECURSIVE BodyLength(_, _)
BodyLength(ops, n) ==
  IF n = 0 THEN 0 ELSE BodyLength(ops, n - 1) + 1 + Len(ops[n].commands)

\* The ids of the declaration lines and of the select lines of a text, in order.
DeclaredIds(lines) ==
  [k \in 1..Len(DeclaredLines(lines)) |->
     parse_u32_or(KICAD_TOOL_REGEX(DeclaredLines(lines)[k]).g1, 0)]

SelectLines(lines) ==
  SelectSeq2(lines, {l \in {lines[k] : k \in 1..Len(lines)} : TOOL_SELECT_REGEX(l).m})

SelectedIds(lines) ==
  [k \in 1..Len(SelectLines(lines)) |->
     parse_u32_or(TOOL_SELECT_REGEX(SelectLines(lines)[k]).g1, 0)]

\* The layout of an emitted text for the operations ops: h header comment lines,
\* the two fixed lines, a comment and a declaration per operation, the three
\* fixed lines, a select and the commands per operation, M30.
EmittedInOrder(lines, ops) ==
  LET h == LeadingComments(lines, 1)
      n == Len(ops)
      b == h + 2 + 2 * n + 3
  IN /\ h >= 1
     /\ Len(lines) = b + BodyLength(ops, n) + 1
     /\ lines[h + 1] = "M48"
     /\ lines[h + 2] = "METRIC,LZ,0000.00000"
     /\ \A i \in 1..n :
          /\ starts_with(lines[h + 2 * i + 1], ";")
          /\ lines[h + 2 * i + 2] = "T" \o Fmt02(i) \o "C" \o Fmt5(ops[i].diameter)
     /\ lines[b - 2] = "%" /\ lines[b - 1] = "G05" /\ lines[b] = "G90"
     /\ \A i \in 1..n :
          /\ lines[b + BodyLength(ops, i - 1) + 1] = "T" \o Fmt02(i)
          /\ \A k \in 1..Len(ops[i].commands) :
               lines[b + BodyLength(ops, i - 1) + 1 + k] = command_line(ops[i].commands[k])
     /\ lines[Len(lines)] = "M30"
     /\ DeclaredIds(lines) = [i \in 1..n |-> i]
     /\ SelectedIds(lines) = [i \in 1..n |-> i]

\* C14: a text made by generate_jlc_excellon holds, in this order, the decorator
\* header, M48, METRIC,LZ,0000.00000, a comment and a declaration per operation,
\* %, G05, G90, per operation its select followed by exactly its commands in
\* order, and M30; the declared ids are 1..n, each selected once, in the same order.
C14_EmittedOrder ==
  pc = "done" =>
    \A ht \in HoleTypes :
      IsSome(EmittedFile(ht)) =>
        /\ IsSome(ClassText(ht))
        /\ EmittedInOrder(Get(ClassText(ht)), Get(EmittedFile(ht)).operations)

\* A plated text of two operations, the first with two commands.
C14_Witness ==
  /\ pc = "done"
  /\ IsSome(EmittedFile("Plated"))
  /\ Len(Get(EmittedFile("Plated")).operations) = 2
  /\ Len(Get(EmittedFile("Plated")).operations[1].commands) = 2
  /\ IsSome(EmittedFile("NonPlated"))
  /\ Get(EmittedFile("NonPlated")).operations[1].commands[1].t = "Slot"
  /\ SelectedIds(Get(result.pth_content)) = <<1, 2>>

\* What a run has accumulated after n contents that all came under through-hole
\* names: a function of the contents alone.
NoFiles == [files |-> <<>>, kpth |-> None, knpth |-> None, panicked |-> FALSE]

KeepByContent(acc, r) ==
  IF r.panicked THEN [acc EXCEPT !.panicked = TRUE]
  ELSE IF r.hole_type = "Plated" /\ acc.kpth = None
  THEN [acc EXCEPT !.kpth = Some(generate_jlc_excellon(r.file, "Plated"))]
  ELSE IF r.hole_type = "NonPlated" /\ acc.knpth = None
  THEN [acc EXCEPT !.knpth = Some(generate_jlc_excellon(r.file, "NonPlated"))]
  ELSE [acc EXCEPT !.files = Append(@, r.file)]

RECURSIVE ByContents(_, _)
ByContents(cs, n) ==
  IF n = 0 THEN NoFiles
  ELSE LET acc == ByContents(cs, n - 1)
       IN IF acc.panicked THEN acc
          ELSE IF detect_drill_eda(cs[n]) = "KiCad"
          THEN KeepByContent(acc, parse_kicad_excellon(cs[n]))
          ELSE [acc EXCEPT !.files = Append(@, parse_ad_excellon(cs[n]))]

\* The texts of a finished run, by the contents alone.
TextsByContents(acc) ==
  IF acc.files = <<>> THEN <<acc.kpth, acc.knpth>>
  ELSE <<OptionOr(emit_option(merge_and_split_drills(acc.files).pth, "Plated"), acc.kpth),
         OptionOr(emit_option(merge_and_split_drills(acc.files).npth, "NonPlated"),
                  acc.knpth)>>

AllThrough == \A i \in 1..NumPairs : ~BlindViaName(filenames[i])

\* The contents the run has gone through: a panic stops inside content idx.
Consumed == IF pc = "panicked" THEN idx ELSE idx - 1

\* C16: when no filename is a blind-via name, the parsed files, the texts kept
\* and the texts returned are those that the contents alone determine, so two
\* runs on the same contents under any two such lists of names agree on them.
C16_FilenamesDoNotMatter ==
  AllThrough =>
    LET acc == ByContents(contents, Consumed)
    IN /\ all_files = acc.files
       /\ kicad_pth_content = acc.kpth /\ kicad_npth_content = acc.knpth
       /\ has_kicad_pth = IsSome(acc.kpth) /\ has_kicad_npth = IsSome(acc.knpth)
       /\ (pc = "panicked") = acc.panicked
       /\ pc = "done" => <<result.pth_content, result.npth_content>> = TextsByContents(acc)
       /\ warnings = <<>>

\* A finished run on a KiCad and a generic content under two different
\* through-hole names, one of them holding "npth".
C16_Witness ==
  /\ pc = "done"
  /\ filenames = <<"npth-drill.TXT", "Board.drl">>
  /\ contents = <<KicadPthA, AdFileC>>
  /\ IsSome(result.pth_content) /\ IsSome(result.npth_content)

(***************************************************************************)
(* Properties of merge_and_split_drills, checked under SpecMerge           *)
(***************************************************************************)
\* The operations handed to the merge, in file order then operation order; the
\* n-th of them holds the marker hole n.
MergeInput == all_operations(m_files)

MergeOutput ==
  (IF IsSome(m_result.pth) THEN Get(m_result.pth).operations ELSE <<>>)
    \o (IF IsSome(m_result.npth) THEN Get(m_result.npth).operations ELSE <<>>)

Holds(op, n) == \E k \in 1..Len(op.commands) : op.commands[k] = MarkerHole(n)

\* Input operations i and j ended in one output operation.
MergedTogether(i, j) ==
  \E n \in 1..Len(MergeOutput) : Holds(MergeOutput[n], i) /\ Holds(MergeOutput[n], j)

\* Two different input operations of one bucket.
BucketPairs ==
  {p \in (1..Len(MergeInput)) \X (1..Len(MergeInput)) :
     p[1] < p[2] /\ MergeInput[p[1]].hole_type = MergeInput[p[2]].hole_type}

\* round(diameter * 100000) of a diameter in model units.
RoundedKey(d) == (d + 5) \div 10

DiametersOf(p) == {MergeInput[p[1]].diameter, MergeInput[p[2]].diameter}

\* C4: two operations of one bucket end in one output operation if and only if
\* round(diameter * 100000) is the same for both.
C4_MergedIffRoundEqual ==
  m_pc = "done" =>
    \A p \in BucketPairs :
      MergedTogether(p[1], p[2])
        <=> RoundedKey(MergeInput[p[1]].diameter) = RoundedKey(MergeInput[p[2]].diameter)

\* C5 as stated: operations of 0.29999 mm and 0.30001 mm of one hole type are
\* merged into one, operations of 0.294 mm and 0.296 mm stay apart.
C5_NearDiametersMerged ==
  m_pc = "done" =>
    \A p \in BucketPairs :
      /\ DiametersOf(p) = {299990, 300010} => MergedTogether(p[1], p[2])
      /\ DiametersOf(p) = {294000, 296000} => ~MergedTogether(p[1], p[2])

\* C5, amended: operations of 0.29999 mm and 0.30001 mm of one hole type stay
\* two operations, and so do operations of 0.294 mm and 0.296 mm.
C5_NearDiametersApart ==
  m_pc = "done" =>
    \A p \in BucketPairs :
      /\ DiametersOf(p) = {299990, 300010} => ~MergedTogether(p[1], p[2])
      /\ DiametersOf(p) = {294000, 296000} => ~MergedTogether(p[1], p[2])

C5_Witness ==
  /\ m_pc = "done"
  /\ \E p \in BucketPairs : DiametersOf(p) = {299990, 300010}
  /\ \E p \in BucketPairs : 294000 \in DiametersOf(p)
  /\ IsSome(m_result.pth) /\ Len(Get(m_result.pth).operations) = 3

\* The operations of a returned program.
ProgramOps(file) == IF IsSome(file) THEN Get(file).operations ELSE <<>>

Returned(ht) == IF ht = "Plated" THEN ProgramOps(m_result.pth) ELSE ProgramOps(m_result.npth)

\* The input operations of a bucket, and those among them that have the
\* diameter key of input operation i.
Bucket(ht) == {i \in 1..Len(MergeInput) : MergeInput[i].hole_type = ht}

KeyGroup(i) ==
  {j \in Bucket(MergeInput[i].hole_type) :
     diameter_key(MergeInput[j].diameter) = diameter_key(MergeInput[i].diameter)}

\* The command lists of the input operations of S, one after the other in input
\* order.
RECURSIVE CommandsOf(_)
CommandsOf(S) ==
  IF S = {} THEN <<>> ELSE MergeInput[SetMin(S)].commands \o CommandsOf(S \ {SetMin(S)})

RECURSIVE CommandCount(_)
CommandCount(ops) ==
  IF ops = <<>> THEN 0 ELSE Len(Head(ops).commands) + CommandCount(Tail(ops))

\* C19: in each bucket the operations that share a diameter key end in exactly
\* one operation, whose commands are theirs one after the other in input order and
\* whose diameter is that of the first of them; every returned operation is such
\* a group, and the bucket holds as many commands after merging as before.
C19_GroupsConcatenated ==
  m_pc = "done" =>
    \A ht \in HoleTypes :
      /\ \A i \in Bucket(ht) :
           Cardinality({n \in 1..Len(Returned(ht)) :
                          /\ Returned(ht)[n].commands = CommandsOf(KeyGroup(i))
                          /\ Returned(ht)[n].diameter = MergeInput[SetMin(KeyGroup(i))].diameter})
             = 1
      /\ Len(Returned(ht)) = Cardinality({KeyGroup(i) : i \in Bucket(ht)})
      /\ CommandCount(Returned(ht)) = CommandCount(OfType(MergeInput, ht))

\* Two plated operations of one key but different diameters, 0.3 mm first, with
\* an operation of another key between them.
C19_Witness ==
  /\ m_pc = "done"
  /\ Len(MergeInput) = 3
  /\ MergeInput[1].diameter = 300000 /\ MergeInput[3].diameter = 300006
  /\ MergeInput[2].diameter = 294000
  /\ Bucket("Plated") = {1, 2, 3}
  /\ Returned("Plated")[2].commands = <<MarkerHole(1), MarkerHole(3)>>
  /\ Returned("Plated")[2].diameter = 300000

\* C20: every operation of the returned PTH program is Plated and holds only
\* commands of Plated input operations, every operation of the NPTH program is
\* NonPlated and holds only commands of NonPlated ones; two input operations of
\* different hole types never end in one operation, whatever their diameters.
C20_PartitionByHoleType ==
  m_pc = "done" =>
    /\ \A ht \in HoleTypes :
         \A n \in 1..Len(Returned(ht)) :
           /\ Returned(ht)[n].hole_type = ht
           /\ \A k \in 1..Len(Returned(ht)[n].commands) :
                \E i \in Bucket(ht) : Returned(ht)[n].commands[k] = MarkerHole(i)
    /\ \A i, j \in 1..Len(MergeInput) :
         MergeInput[i].hole_type # MergeInput[j].hole_type => ~MergedTogether(i, j)

\* A plated and a non-plated operation of 0.3 mm, returned in two programs.
C20_Witness ==
  /\ m_pc = "done"
  /\ \E i \in Bucket("Plated") : \E j \in Bucket("NonPlated") :
       MergeInput[i].diameter = 300000 /\ MergeInput[j].diameter = 300000
  /\ IsSome(m_result.pth) /\ IsSome(m_result.npth)

(***************************************************************************)
(* Properties of the parsers' second pass, checked under SpecParse         *)
(***************************************************************************)
SlotLines == <<"G00X100Y200", "M15", "G01X300Y200", "M16">>

EndsWithSlotLines == Len(p_body) >= 4 /\ SubSeq(p_body, Len(p_body) - 3, Len(p_body)) = SlotLines

\* The second-pass states before the last four body lines.
AdBefore ==
  ad_second_pass(p_ad_h, AdBodyInit(p_ad_h),
                 p_header \o SubSeq(p_body, 1, Len(p_body) - 4), 1)

KicadBefore ==
  kicad_second_pass(p_ki_h, KicadBodyInit(p_ki_h),
                    p_header \o SubSeq(p_body, 1, Len(p_body) - 4), 1)

\* The four lines added exactly the slot to the selected tool's commands.
AddedOnly(before, after, slot) ==
  HasTool(before) =>
    /\ after.current_tool = before.current_tool
    /\ after.commands
         = [before.commands EXCEPT ![Get(before.current_tool)] = Append(@, slot)]

\* C9 as stated: with a declared tool selected, the four lines make the parser
\* (either of the two) record exactly one Slot from (100,200) to (300,200) and
\* no Hole for that tool.
C9_SlotOfWrittenNumbers ==
  EndsWithSlotLines =>
    /\ AddedOnly(KicadBefore, p_ki_b, Slot(100 * Unit, 200 * Unit, 300 * Unit, 200 * Unit))
    /\ AddedOnly(AdBefore, p_ad_b, Slot(100 * Unit, 200 * Unit, 300 * Unit, 200 * Unit))

\* The slot the generic parser decodes under each header of the catalogue:
\* 2 integer digits by default, 3 with FILE_FORMAT=3:3, 4 decimal digits of an
\* inch with INCH,TZ.
DecodedSlot(header) ==
  IF header = HeaderFormat33
  THEN Slot(100 * Unit, 200 * Unit, 300 * Unit, 200 * Unit)
  ELSE IF header = HeaderInchTz THEN Slot(254000, 508000, 762000, 508000)
  ELSE Slot(10 * Unit, 20 * Unit, 30 * Unit, 20 * Unit)

\* C9, amended: with a declared tool selected, the four lines make either
\* parser record exactly one Slot and no Hole for that tool; the KiCad parser
\* takes the numbers as millimetres, (100,200) to (300,200), the generic parser
\* decodes them under the header's format, (10,20) to (30,20) by default.
C9_SlotOfDecodedNumbers ==
  EndsWithSlotLines =>
    /\ AddedOnly(KicadBefore, p_ki_b, Slot(100 * Unit, 200 * Unit, 300 * Unit, 200 * Unit))
    /\ AddedOnly(AdBefore, p_ad_b, DecodedSlot(p_header))

C9_Witness ==
  /\ p_header = HeaderDefault
  /\ p_body = <<"T01">> \o SlotLines
  /\ p_ad_b.commands[1] = <<Slot(10 * Unit, 20 * Unit, 30 * Unit, 20 * Unit)>>
  /\ p_ki_b.commands[1] = <<Slot(100 * Unit, 200 * Unit, 300 * Unit, 200 * Unit)>>

(***************************************************************************)
(* Properties of parse_kicad_excellon, checked under SpecKicad             *)
(***************************************************************************)
\* The content holds "npth" or "nonplated" in some letter case.
NamesNonPlated(content) ==
  \E i \in 1..Len(content) :
    contains(to_lowercase(content[i]), "npth")
      \/ contains(to_lowercase(content[i]), "nonplated")

\* C10: the file is NonPlated when its content holds "npth" or "nonplated" in
\* any letter case and Plated otherwise, and every operation returned carries
\* that hole type.
C10_AnyCaseMarker ==
  k_pc = "done" =>
    /\ k_result.hole_type = IF NamesNonPlated(k_content) THEN "NonPlated" ELSE "Plated"
    /\ \A n \in 1..Len(k_result.file.operations) :
         k_result.file.operations[n].hole_type = k_result.hole_type


(***************************************************************************)
(* Properties of the header pass, checked under SpecHeader                 *)
(***************************************************************************)
\* The lines of the header: those before the first "%" line.
RECURSIVE HeaderPart(_, _)
HeaderPart(lines, i) ==
  IF i > Len(lines) \/ lines[i] = "%" THEN SubSeq(lines, 1, i - 1)
  ELSE HeaderPart(lines, i + 1)

HeaderLines == HeaderPart(hd_lines, 1)

\* The file is declared in inches: its header has an INCH line and no
\* METRIC line.
DeclaredInInches ==
  /\ \E i \in DOMAIN HeaderLines : starts_with(HeaderLines[i], "INCH")
  /\ \A i \in DOMAIN HeaderLines : ~starts_with(HeaderLines[i], "METRIC")

\* The value written in the last declaration of tool id, in model units.
DeclaredValue(id) ==
  LET decl == {i \in DOMAIN HeaderLines :
                 /\ AD_TOOL_REGEX(HeaderLines[i]).m
                 /\ parse_u32_or(AD_TOOL_REGEX(HeaderLines[i]).g1, 0) = id}
      last == CHOOSE i \in decl : \A j \in decl : j <= i
  IN parse_f64_or(AD_TOOL_REGEX(HeaderLines[last]).g2, 0)

\* C11: in a file declared in inches every recorded tool diameter is the
\* declared value times 25.4, wherever the INCH line stands among the tool
\* declaration lines.
C11_InchDiametersConverted ==
  DeclaredInInches =>
    \A id \in DOMAIN hd_h.tool_map :
      hd_h.tool_map[id].diameter = (DeclaredValue(id) * 254) \div 10

\* A tool that is declared above the INCH line keeps its value in inches.
C11_DeclaredBeforeUnit ==
  /\ hd_lines = <<"T01F00S00C0.0118", "INCH,TZ">>
  /\ hd_h.tool_map[1].diameter = 11800


(***************************************************************************)
(* Properties of parse_ad_coordinate, checked under SpecCoord              *)
(***************************************************************************)
Decoded == fn_pc = "done"

\* m * 25.4 for a magnitude m in model units.
Times25_4(m) == (m \div 10) * 254 + ((m % 10) * 254) \div 10

\* The token is a run of digits with at most one sign before it.
IsDigitToken(t) == StripSign(t) # "" /\ AllDigits(StripSign(t))

\* n / 10^decimal_places (at most six decimals), in model units, with the
\* sign of the token, times 25.4 for inches.
ScaledDigits(t, decimal_places, unit) ==
  LET mag == DigitsVal(StripSign(t)) * Pow10(6 - decimal_places)
      mm  == IF unit = "Inch" THEN Times25_4(mag) ELSE mag
  IN IF starts_with(t, "-") THEN -mm ELSE mm

\* C12: under TrailingZero mode a digit token decodes to the integer value of all
\* its digits over 10^decimal_places, with the sign reapplied and times 25.4 when
\* the unit is Inch; "100" under Inch, TrailingZero, two decimals is 25.4 mm.
C12_TrailingZeroDecode ==
  /\ (Decoded /\ ~fn_in.is_lz /\ IsDigitToken(fn_in.coord))
       => fn_out[1] = ScaledDigits(fn_in.coord, fn_in.format[2], fn_in.unit)
  /\ parse_ad_coordinate("100", 2, 2, FALSE, "Inch") = 25400000

C12_Witness ==
  /\ Decoded
  /\ fn_in = [coord |-> "100", format |-> <<2, 2>>, is_lz |-> FALSE, unit |-> "Inch"]
  /\ fn_out = <<25400000>>


\* Zero suppression keeps at least one digit.
RECURSIVE SuppressTrailingZeros(_)
SuppressTrailingZeros(d) ==
  IF Len(d) > 1 /\ SubSeq(d, Len(d), Len(d)) = "0"
  THEN SuppressTrailingZeros(SubSeq(d, 1, Len(d) - 1)) ELSE d

RECURSIVE SuppressLeadingZeros(_)
SuppressLeadingZeros(d) ==
  IF Len(d) > 1 /\ SubSeq(d, 1, 1) = "0"
  THEN SuppressLeadingZeros(SubSeq(d, 2, Len(d))) ELSE d

\* The token of the value whose integer_places + decimal_places digits are d:
\* LeadingZero keeps the leading zeros and drops the trailing ones, TrailingZero
\* the other way round.
EncodeCoord(d, is_lz) ==
  IF is_lz THEN SuppressTrailingZeros(d) ELSE SuppressLeadingZeros(d)

\* The values that have integer_places integer and decimal_places decimal
\* digits, as digit strings, whose token is t.
ValuesEncodedAs(t, format, is_lz) ==
  {d \in DigitStrings(format[1] + format[2]) : EncodeCoord(d, is_lz) = StripSign(t)}

\* The bound 1e-5 mm in model units.
RoundTripBound == Unit \div 100000

\* C13: a value with the given digit counts, encoded as a LeadingZero or a
\* TrailingZero token and decoded under the same mode and digit counts, comes
\* back within 1e-5 mm.
C13_RoundTrip ==
  (Decoded /\ IsDigitToken(fn_in.coord)) =>
    \A d \in ValuesEncodedAs(fn_in.coord, fn_in.format, fn_in.is_lz) :
      Abs(fn_out[1] - ScaledDigits(IF starts_with(fn_in.coord, "-") THEN "-" \o d ELSE d,
                                   fn_in.format[2], fn_in.unit)) <= RoundTripBound

\* The round trip of the values whose LeadingZero token keeps all the integer
\* digits, and of every TrailingZero token.
C13_RoundTripLongTokens ==
  (Decoded /\ IsDigitToken(fn_in.coord)
     /\ (fn_in.is_lz => Len(StripSign(fn_in.coord)) >= fn_in.format[1])) =>
    \A d \in ValuesEncodedAs(fn_in.coord, fn_in.format, fn_in.is_lz) :
      Abs(fn_out[1] - ScaledDigits(IF starts_with(fn_in.coord, "-") THEN "-" \o d ELSE d,
                                   fn_in.format[2], fn_in.unit)) <= RoundTripBound


(***************************************************************************)
(* Properties of the filename predicates, checked under SpecNames          *)
(***************************************************************************)
\* The last Len(e) characters of s are e.
EndsIn(s, e) == Len(s) >= Len(e) /\ SubSeq(s, Len(s) - Len(e) + 1, Len(s)) = e

OccursIn(s, w) == \E k \in 1..(Len(s) - Len(w) + 1) : SubSeq(s, k, k + Len(w) - 1) = w

\* The condition on the lower-cased name.
DrillNameRule(lower) ==
  \/ EndsIn(lower, ".drl")
  \/ \E n \in 1..6 : EndsIn(lower, ".tx" \o DigitChar(n))
  \/ EndsIn(lower, ".txt") /\ (OccursIn(lower, "hole") \/ OccursIn(lower, "drill"))

\* C15: is_drill_file is true exactly for the names that, lower-cased, end in
\* .drl, or in one of .tx1 to .tx6, or in .txt with "hole" or "drill" in the name;
\* and a name for which is_through_drill is false is a drill file.
C15_DrillNames ==
  /\ "is_drill_file" \in DOMAIN fn_out
       => (fn_out["is_drill_file"] <=> DrillNameRule(to_lowercase(fn_in)))
  /\ ({"is_drill_file", "is_through_drill"} \subseteq DOMAIN fn_out
        /\ ~fn_out["is_through_drill"])
       => fn_out["is_drill_file"]

\* A blind-via name in capitals, with both answers.
C15_Witness ==
  /\ fn_in = "Board.TX3"
  /\ DOMAIN fn_out = {"is_drill_file", "is_through_drill"}
  /\ fn_out["is_drill_file"] /\ ~fn_out["is_through_drill"]


(***************************************************************************)
(* Properties of validate_gerber_files, checked under SpecValidate         *)
(***************************************************************************)
Validated == fn_pc = "validated"

\* Some name of the list starts with the prefix "Gerber_" \o layer.
HasLayer(layer) ==
  \E k \in DOMAIN fn_in :
    Len(fn_in[k]) >= 7 + Len(layer) /\ SubSeq(fn_in[k], 1, 7 + Len(layer)) = "Gerber_" \o layer

InnerLayerFiles == {k \in DOMAIN fn_in : SubSeq(fn_in[k], 1, 17) = "Gerber_InnerLayer"}

\* C17: Ok exactly when the three required prefixes are present, a bottom copper
\* layer comes with a bottom solder mask and inner layers come with a bottom
\* copper layer; on Ok layer_count is top + bottom + inner files, at least 1 and
\* at least 3 with an inner layer; on Err the errors are not empty and no warning
\* is returned.
C17_ValidationRules ==
  Validated =>
    /\ fn_out.ok <=>
         /\ HasLayer("BoardOutlineLayer") /\ HasLayer("TopLayer")
         /\ HasLayer("TopSolderMaskLayer")
         /\ HasLayer("BottomLayer") => HasLayer("BottomSolderMaskLayer")
         /\ InnerLayerFiles # {} => HasLayer("BottomLayer")
    /\ fn_out.ok =>
         /\ fn_out.layer_count = Flag(HasLayer("TopLayer")) + Flag(HasLayer("BottomLayer"))
                                   + Cardinality(InnerLayerFiles)
         /\ fn_out.layer_count >= 1
         /\ InnerLayerFiles # {} => fn_out.layer_count >= 3
    /\ ~fn_out.ok =>
         /\ fn_out.errors # <<>>
         /\ DOMAIN fn_out = {"ok", "errors"}

\* A four-layer set that passes, and a set that fails on the stackup rule alone.
C17_Witness ==
  /\ Validated /\ fn_out.ok /\ fn_out.layer_count = 4
  /\ fn_out.warnings # <<>>

C17_WitnessErr ==
  /\ Validated /\ ~fn_out.ok /\ Len(fn_out.errors) = 1
  /\ InnerLayerFiles # {} /\ ~HasLayer("BottomLayer")


(***************************************************************************)
(* Properties of process_d_codes, checked under SpecDcode                  *)
(***************************************************************************)
\* A D-code starts at position p: a D, then two to four digits, then "*".
DcodeStarts(line, p) ==
  /\ SubSeq(line, p, p) = "D"
  /\ \E n \in 2..4 :
       /\ p + n + 1 <= Len(line)
       /\ \A k \in 1..n : SubSeq(line, p + k, p + k) \in Digits
       /\ SubSeq(line, p + n + 1, p + n + 1) = "*"

\* The line from position p on, with G54 before every D-code.
RECURSIVE WithG54(_, _)
WithG54(line, p) ==
  IF p > Len(line) THEN ""
  ELSE (IF DcodeStarts(line, p) THEN "G54" ELSE "") \o SubSeq(line, p, p)
       \o WithG54(line, p + 1)

Untouched(line) == OccursIn(line, "%ADD") \/ OccursIn(line, "G54D")

\* C18: every D-code on a line that holds neither %ADD nor G54D gets G54 before
\* it and all other text stays as it is; a second application changes nothing.
C18_PrefixOnceOnly ==
  /\ Len(fn_out) >= 1 =>
       /\ Len(fn_out[1]) = Len(fn_in)
       /\ \A k \in 1..Len(fn_in) :
            fn_out[1][k] = IF Untouched(fn_in[k]) THEN fn_in[k] ELSE WithG54(fn_in[k], 1)
  /\ Len(fn_out) = 2 => fn_out[2] = fn_out[1]

\* A line with two D-codes and a D that starts none, applied twice.
C18_Witness ==
  /\ fn_in = <<"D10*X1D100*DD1234*", "D10*">>
  /\ fn_out = << <<"G54D10*X1G54D100*DG54D1234*", "G54D10*">>,
                 <<"G54D10*X1G54D100*DG54D1234*", "G54D10*">> >>


(***************************************************************************)
(* Properties of the routing state machines, checked under SpecParse and   *)
(* SpecBody                                                                *)
(***************************************************************************)
\* The number of commands of a kind in a command list, and in all the command
\* lists of a second-pass state.
RECURSIVE CountKind(_, _)
CountKind(cmds, kind) ==
  IF cmds = <<>> THEN 0
  ELSE (IF Head(cmds).t = kind THEN 1 ELSE 0) + CountKind(Tail(cmds), kind)

RECURSIVE CountIn(_, _, _)
CountIn(commands, tools, kind) ==
  IF tools = {} THEN 0
  ELSE CountKind(commands[SetMin(tools)], kind)
       + CountIn(commands, tools \ {SetMin(tools)}, kind)

HoleCount(b) == CountIn(b.commands, DOMAIN b.commands, "Hole")

\* C21: while routing is open in parse_ad_excellon, that is from an M15 to the
\* next M16, no line adds a Hole command.
C21_NoHoleWhileRouting ==
  [][p_ad_b.in_route => HoleCount(p_ad_b') = HoleCount(p_ad_b)]_vars

\* A bare coordinate line after T01 and M15 has recorded a Hole.
C21_HoleWhileRouting ==
  /\ p_body = <<"T01", "M15", "X1Y1">>
  /\ p_ad_b.in_route
  /\ Len(p_ad_b.commands[1]) = 1 /\ p_ad_b.commands[1][1].t = "Hole"


\* The line that a step feeds.
FedLine == p_body'[Len(p_body')]

\* The cursor of n is that of b moved to the axes written on the line (decimal
\* millimetres); an axis that is not written keeps its value.
MovedBy(b, n, caps) ==
  /\ n.last_x = (IF IsSome(caps.x) THEN parse_f64_or(Get(caps.x), 0) ELSE b.last_x)
  /\ n.last_y = (IF IsSome(caps.y) THEN parse_f64_or(Get(caps.y), 0) ELSE b.last_y)

\* All commands of all tools.
TotalCommands(b) ==
  CountIn(b.commands, DOMAIN b.commands, "Hole") + CountIn(b.commands, DOMAIN b.commands, "Slot")

\* n has the commands of b and one more, cmd, the last of some tool.
OneMore(b, n, cmd) ==
  \E t \in DOMAIN b.commands : n.commands = [b.commands EXCEPT ![t] = Append(@, cmd)]

IsBareCoordinate(line) ==
  COORD_REGEX(line).m /\ (IsSome(COORD_REGEX(line).x) \/ IsSome(COORD_REGEX(line).y))

\* G00 sets the cursor and emits nothing; an axis missing on a G00 or on a bare
\* coordinate line keeps its value; a G01 while not routing changes nothing.
CursorRules(b, n, line) ==
  /\ starts_with(line, "G00") =>
       n.commands = b.commands /\ MovedBy(b, n, ROUTE_START_REGEX(line))
  /\ IsBareCoordinate(line) =>
       /\ ~IsSome(COORD_REGEX(line).x) => n.last_x = b.last_x
       /\ ~IsSome(COORD_REGEX(line).y) => n.last_y = b.last_y
  /\ (starts_with(line, "G01") /\ ~b.in_route) => n = b

\* C22 as stated: the cursor rules, and while routing every G01 emits one Slot
\* from the cursor before the move to the cursor after it.
C22_EveryRouteToEmits ==
  [][/\ CursorRules(p_ad_b, p_ad_b', FedLine)
     /\ (starts_with(FedLine, "G01") /\ p_ad_b.in_route) =>
          /\ MovedBy(p_ad_b, p_ad_b', ROUTE_TO_REGEX(FedLine))
          /\ OneMore(p_ad_b, p_ad_b',
                     Slot(p_ad_b.last_x, p_ad_b.last_y, p_ad_b'.last_x, p_ad_b'.last_y))]_vars

\* C22, amended: the cursor rules; while routing every G01 moves the cursor, and
\* it emits one Slot from the cursor before the move to the cursor after it for
\* the selected tool, or nothing when no tool is selected.
C22_RouteToEmitsForTool ==
  [][/\ CursorRules(p_ad_b, p_ad_b', FedLine)
     /\ (starts_with(FedLine, "G01") /\ p_ad_b.in_route) =>
          /\ MovedBy(p_ad_b, p_ad_b', ROUTE_TO_REGEX(FedLine))
          /\ IF HasTool(p_ad_b)
             THEN p_ad_b'.commands =
                    [p_ad_b.commands EXCEPT ![Get(p_ad_b.current_tool)] =
                       Append(@, Slot(p_ad_b.last_x, p_ad_b.last_y,
                                      p_ad_b'.last_x, p_ad_b'.last_y))]
             ELSE p_ad_b'.commands = p_ad_b.commands]_vars

\* A chain of two G01 lines, the second with one axis: the second Slot starts
\* where the first ended.
C22_Witness ==
  /\ p_header = TextHeader
  /\ p_body = <<"T01", "M15", "G01X3.0Y2.0", "G01Y5.0">>
  /\ p_ad_b.commands[1]
       = <<Slot(0, 0, 3 * Unit, 2 * Unit), Slot(3 * Unit, 2 * Unit, 3 * Unit, 5 * Unit)>>


\* C23: on body lines with decimal coordinates and the same declared tools the
\* KiCad parser and the generic parser record the same commands for every tool.
C23_SameCommands == ~p_ki_b.panicked /\ p_ki_b.commands = p_ad_b.commands

\* The three cases the claim names, each without a panic: the second Slot of a
\* chain starts at the G00 point, a second block without G00 records nothing,
\* and a line with one axis records no Hole.
C23_ChainDiffers ==
  /\ p_header = TextRouted
  /\ p_body = <<"G00X1.0Y2.0", "M15", "G01X3.0Y2.0", "G01X3.0Y2.0">>
  /\ ~p_ki_b.panicked
  /\ p_ad_b.commands[1][3] = Slot(3 * Unit, 2 * Unit, 3 * Unit, 2 * Unit)
  /\ p_ki_b.commands[1][2] = Slot(1 * Unit, 2 * Unit, 3 * Unit, 2 * Unit)

C23_SecondBlockDiffers ==
  /\ p_header = TextRouted
  /\ p_body = <<"M15", "G01X3.0Y2.0">>
  /\ p_ad_b.commands[1] = <<Slot(0, 0, 3 * Unit, 2 * Unit), Slot(3 * Unit, 2 * Unit, 3 * Unit, 2 * Unit)>>
  /\ p_ki_b.commands[1] = <<>>

C23_SingleAxisDiffers ==
  /\ p_header = TextHeader
  /\ p_body = <<"T01", "Y8.0">>
  /\ p_ad_b.commands[1] = <<Hole(0, 8 * Unit)>>
  /\ p_ki_b.commands[1] = <<>>


\* ---------------------------------------------------------------------------
\* Properties of detect_drill_eda, checked under SpecDetect.
\* ---------------------------------------------------------------------------

AnyCase(content, word) == \E i \in 1..Len(content) : contains(to_lowercase(content[i]), word)

HasToolHeaderLine(content) == \E i \in 1..Len(content) : AD_TOOL_REGEX(content[i]).m

ByPriority(content) ==
  IF AnyCase(content, "kicad") THEN "KiCad"
  ELSE IF HasToolHeaderLine(content) THEN "Altium"
  ELSE IF AnyCase(content, "altium") THEN "Altium"
  ELSE "Unknown"

\* C24: the detected type follows the priority kicad, tool-header line on any
\* line, altium, Unknown; Unknown content goes to the generic parser.
C24_DetectByPriority ==
  /\ "eda" \in DOMAIN fn_out => fn_out["eda"] = ByPriority(fn_in)
  /\ "parser" \in DOMAIN fn_out =>
       (fn_out["parser"] = "parse_kicad_excellon") = (ByPriority(fn_in) = "KiCad")

\* A tool header on the second line is not seen by the detector.
C24_ToolHeaderOnSecondLine ==
  /\ fn_in = <<"M48", "T01F00S00C0.3">>
  /\ "eda" \in DOMAIN fn_out /\ fn_out["eda"] = "Unknown"


\* ---------------------------------------------------------------------------
\* Hole type of a declared tool, checked under SpecHeader.
\* ---------------------------------------------------------------------------

MarkerOf(line) ==
  IF contains(line, "TYPE=NON_PLATED") THEN "NonPlated"
  ELSE IF contains(line, "TYPE=PLATED") THEN "Plated"
  ELSE "none"

\* The hole-type context on header line n: the most recent marker on lines
\* 1..n, Plated when there is none.
ContextAt(lines, n) ==
  LET marked == {i \in 1..n : MarkerOf(lines[i]) # "none"}
  IN IF marked = {} THEN "Plated"
     ELSE MarkerOf(lines[CHOOSE i \in marked : \A j \in marked : j <= i])

\* The header lines that declare tool id.
DeclaringLines(id) ==
  {i \in DOMAIN HeaderLines :
     /\ AD_TOOL_REGEX(HeaderLines[i]).m
     /\ parse_u32_or(AD_TOOL_REGEX(HeaderLines[i]).g1, 0) = id}

DeclaringLine(id) == CHOOSE i \in DeclaringLines(id) : \A j \in DeclaringLines(id) : j <= i

\* C25: the tools of the table are the tools declared in the header, and the
\* hole type of each is the hole-type context on the line of its (last)
\* declaration: Plated without a marker before it, else the most recent marker
\* before or on that line; later markers and markers after % change nothing.
C25_HoleTypeAtDeclaration ==
  /\ DOMAIN hd_h.tool_map = {id \in 1..3 : DeclaringLines(id) # {}}
  /\ \A id \in DOMAIN hd_h.tool_map :
       hd_h.tool_map[id].hole_type = ContextAt(HeaderLines, DeclaringLine(id))

\* A tool declared under NON_PLATED keeps it through a later PLATED marker and
\* a marker after the header.
C25_Witness ==
  /\ hd_lines = <<";TYPE=NON_PLATED", "T01F00S00C0.0118", ";TYPE=PLATED", "T02F00S00C0.5">>
  /\ hd_h.tool_map[1].hole_type = "NonPlated"
  /\ hd_h.tool_map[2].hole_type = "Plated"

\* A marker on the line of the declaration counts for it.
C25_WitnessSameLine ==
  /\ hd_lines = <<";TYPE=PLATED", "T03F00S00C0.8;TYPE=NON_PLATED">>
  /\ hd_h.tool_map[3].hole_type = "NonPlated"

\* A marker in the body is ignored.
C25_WitnessBody ==
  /\ hd_lines = <<"T01F00S00C0.0118", "%", ";TYPE=NON_PLATED", "T02F00S00C0.5">>
  /\ DOMAIN hd_h.tool_map = {1}
  /\ hd_h.tool_map[1].hole_type = "Plated"
  /\ hd_h.current_hole_type = "Plated"


\* ---------------------------------------------------------------------------
\* The operations both parsers return, checked under SpecBody.
\* ---------------------------------------------------------------------------

\* The declared tool ids that received a command.
ReceivedIds(commands) == {id \in DOMAIN commands : commands[id] # <<>>}

\* The k-th smallest id of a set.
KthId(ids, k) == CHOOSE id \in ids : Cardinality({j \in ids : j <= id}) = k

\* ops holds exactly one operation for each id that received a command, with
\* that id's command list, in ascending id order.
OnePerReceivedId(ops, commands) ==
  /\ Len(ops) = Cardinality(ReceivedIds(commands))
  /\ \A k \in 1..Len(ops) :
       /\ ops[k].commands # <<>>
       /\ ops[k].commands = commands[KthId(ReceivedIds(commands), k)]

AdReturned == ad_result(p_ad_h, p_ad_b).operations

KicadReturned == kicad_result(p_ki_h, p_ki_b, "Plated").file.operations

\* C26: both parsers return one operation per declared tool id that received
\* a command, none with an empty command list, in ascending tool id order, and
\* each with the diameter declared for its id.
C26_OnePerUsedTool ==
  /\ OnePerReceivedId(AdReturned, p_ad_b.commands)
  /\ \A k \in 1..Len(AdReturned) :
       AdReturned[k].diameter
         = p_ad_h.tool_map[KthId(ReceivedIds(p_ad_b.commands), k)].diameter
  /\ ~p_ki_b.panicked =>
       /\ OnePerReceivedId(KicadReturned, p_ki_b.commands)
       /\ \A k \in 1..Len(KicadReturned) :
            KicadReturned[k].diameter
              = p_ki_h.tool_map[KthId(ReceivedIds(p_ki_b.commands), k)]

\* Tool 2 is declared first and drills first; tool 1 still comes first.
C26_Witness ==
  /\ p_header = TextTwoTools
  /\ p_body = <<"T02", "X7.0Y7.0", "T01", "X7.0Y7.0">>
  /\ AdReturned = <<DrillOperation(3 * (Unit \div 10), "Plated", <<Hole(7 * Unit, 7 * Unit)>>),
                    DrillOperation(5 * (Unit \div 10), "Plated", <<Hole(7 * Unit, 7 * Unit)>>)>>
  /\ KicadReturned = AdReturned

\* A declared tool without commands yields no operation.
C26_WitnessUnused ==
  /\ p_header = TextTwoTools
  /\ p_body = <<"T02", "X7.0Y7.0", "T01">>
  /\ Len(AdReturned) = 1 /\ Len(KicadReturned) = 1
  /\ AdReturned[1].diameter = 5 * (Unit \div 10)


\* ---------------------------------------------------------------------------
\* Tool selection, checked under SpecBody.
\* ---------------------------------------------------------------------------

\* The fed line selects tool 2 and tool 2 is not declared.
SelectsUndeclared == FedLine = "T02" /\ 2 \notin DOMAIN p_ad_h.tool_map

\* A step records commands for the tool that was selected before it, if any.
RecordsForSelected(b, n) ==
  \A id \in DOMAIN b.commands :
    n.commands[id] # b.commands[id] => b.current_tool = Some(id)

\* C27: in both parsers a select line for an undeclared id leaves the active
\* tool and the recorded commands unchanged; every later command goes to the
\* tool selected before it or is dropped when there is none, and no command
\* list exists for an undeclared id.
C27_UndeclaredSelectIgnored ==
  [][/\ SelectsUndeclared =>
          /\ p_ad_b'.current_tool = p_ad_b.current_tool
          /\ p_ad_b'.commands = p_ad_b.commands
          /\ p_ki_b'.current_tool = p_ki_b.current_tool
          /\ p_ki_b'.commands = p_ki_b.commands
      /\ RecordsForSelected(p_ad_b, p_ad_b')
      /\ RecordsForSelected(p_ki_b, p_ki_b')
      /\ DOMAIN p_ad_b'.commands = DOMAIN p_ad_h.tool_map
      /\ DOMAIN p_ki_b'.commands = DOMAIN p_ki_h.tool_map]_vars

\* After T01, T02 the hole goes to tool 1.
C27_Witness ==
  /\ p_header = TextHeader
  /\ p_body = <<"T01", "T02", "X7.0Y7.0">>
  /\ p_ad_b.current_tool = Some(1) /\ p_ki_b.current_tool = Some(1)
  /\ p_ad_b.commands[1] = <<Hole(7 * Unit, 7 * Unit)>>
  /\ p_ki_b.commands[1] = <<Hole(7 * Unit, 7 * Unit)>>

\* After T02 alone the hole is dropped.
C27_WitnessDropped ==
  /\ p_header = TextHeader
  /\ p_body = <<"T02", "X7.0Y7.0">>
  /\ p_ad_b.current_tool = None /\ p_ki_b.current_tool = None
  /\ p_ad_b.commands[1] = <<>> /\ p_ki_b.commands[1] = <<>>


\* ---------------------------------------------------------------------------
\* The boundary between header and body, checked under SpecContent.
\* ---------------------------------------------------------------------------

HasEnd(content) == \E i \in DOMAIN content : content[i] = "%"

AppendedLine == p_header'[Len(p_header')]

NoCommands(b) == \A id \in DOMAIN b.commands : b.commands[id] = <<>>

\* After a step that appended a coordinate line while a tool was selected
\* the tool's list has one more Hole.
HoleRecorded(b, n, line) ==
  (line = "X7.0Y7.0" /\ HasTool(b)) =>
    n.commands[Get(b.current_tool)]
      = Append(b.commands[Get(b.current_tool)], Hole(7 * Unit, 7 * Unit))

BeforeEnd ==
  /\ NoCommands(p_ad_b) /\ NoCommands(p_ki_b)
  /\ ad_result(p_ad_h, p_ad_b).operations = <<>>
  /\ kicad_result(p_ki_h, p_ki_b, "Plated").file.operations = <<>>

AfterEnd ==
  /\ p_ad_h'.tool_map = p_ad_h.tool_map
  /\ p_ki_h'.tool_map = p_ki_h.tool_map
  /\ HoleRecorded(p_ad_b, p_ad_b', AppendedLine)
  /\ HoleRecorded(p_ki_b, p_ki_b', AppendedLine)

\* C28: while the content has no % line both parsers have no command and
\* return an empty program; once it has one, no further line changes a tool
\* table, whether a declaration or another %, and a coordinate line for the
\* selected tool is recorded by both parsers.
C28_HeaderEndsOnce ==
  [][/\ IF HasEnd(p_header) THEN AfterEnd ELSE BeforeEnd
     /\ HasEnd(p_header') \/ BeforeEnd']_vars

\* A hole after a second % line; the declaration after the first % is not
\* recorded by the KiCad parser.
C28_Witness ==
  /\ p_header = <<"T01F00S00C0.3", "%", "%", "T01", "X7.0Y7.0">>
  /\ p_ad_b.commands[1] = <<Hole(7 * Unit, 7 * Unit)>>
  /\ p_ki_h.tool_map = EmptyMap

\* Without a % line the declared tool has no command.
C28_WitnessNoEnd ==
  /\ p_header = <<"T01F00S00C0.3", "T01C0.3", "T01", "X7.0Y7.0">>
  /\ DOMAIN p_ad_h.tool_map = {1} /\ DOMAIN p_ki_h.tool_map = {1}
  /\ NoCommands(p_ad_b) /\ NoCommands(p_ki_b)


\* ---------------------------------------------------------------------------
\* Merging the merged programs again, checked under SpecMerge.
\* ---------------------------------------------------------------------------

ReturnedKeys(ht) == [n \in 1..Len(Returned(ht)) |-> diameter_key(Returned(ht)[n].diameter)]

StrictlyAscending(seq) == \A a, b \in 1..Len(seq) : a < b => seq[a] < seq[b]

\* The returned programs as the files of a second call, PTH first.
ReturnedFiles ==
  (IF IsSome(m_result.pth) THEN <<Get(m_result.pth)>> ELSE <<>>)
    \o (IF IsSome(m_result.npth) THEN <<Get(m_result.npth)>> ELSE <<>>)

\* C29: the diameter keys of each returned program are strictly ascending,
\* hence pairwise distinct, and merge_and_split_drills of the returned programs
\* returns the same two programs.
C29_MergeIdempotent ==
  m_pc = "done" =>
    /\ \A ht \in HoleTypes : StrictlyAscending(ReturnedKeys(ht))
    /\ merge_and_split_drills(ReturnedFiles) = m_result
    /\ merge_and_split_drills(<<DrillFile(Returned("NonPlated") \o Returned("Plated"))>>)
         = m_result

\* Both programs are returned, and the plated one holds a merged operation
\* of two inputs given in descending diameter order next to a smaller one.
C29_Witness ==
  /\ m_pc = "done"
  /\ IsSome(m_result.pth) /\ IsSome(m_result.npth)
  /\ Len(MergeInput) = 3
  /\ MergeInput[1].diameter = 300006 /\ MergeInput[2].diameter = 300000
  /\ Returned("Plated") = <<DrillOperation(300006, "Plated", <<MarkerHole(1), MarkerHole(2)>>)>>
  /\ Len(Returned("NonPlated")) = 1


\* ---------------------------------------------------------------------------
\* Processing an emitted text again, checked under the pipeline specification.
\* ---------------------------------------------------------------------------

\* The two texts process_drill_files returns for one content given under a
\* through-hole filename.
Reprocessed(text) == TextsByContents(ByContents(<<text>>, 1))

ClassIndex(ht) == IF ht = "Plated" THEN 1 ELSE 2

\* C30: an emitted text, processed again under a through-hole filename, yields
\* a text for the same plating class with the same tool declarations and the
\* same command lines.
C30_ReprocessStable ==
  pc = "done" =>
    \A ht \in HoleTypes :
      IsSome(ClassText(ht)) =>
        /\ IsSome(Reprocessed(Get(ClassText(ht)))[ClassIndex(ht)])
        /\ ProgramLines(Get(Reprocessed(Get(ClassText(ht)))[ClassIndex(ht)]))
             = ProgramLines(Get(ClassText(ht)))

\* An emitted text with a declared tool is read as Unknown, no tool of it is
\* recorded, and processing it returns no text at all.
C30_NothingReturned ==
  /\ pc = "done"
  /\ IsSome(result.pth_content)
  /\ DeclaredLines(Get(result.pth_content)) # <<>>
  /\ detect_drill_eda(Get(result.pth_content)) = "Unknown"
  /\ parse_ad_excellon(Get(result.pth_content)).operations = <<>>
  /\ Reprocessed(Get(result.pth_content)) = <<None, None>>

====
